---- MODULE Spec2Model ----
(***************************************************************************)
(* Shared-memory streaming core of multiqueue-shm: the buffer pool, the    *)
(* buffer metadata table, the buffer handle (BufferPtr), ShmManager's      *)
(* allocate and the broadcast PortQueue, as one state machine.             *)
(*                                                                         *)
(* One producer thread allocates buffers through ShmManager::allocate,     *)
(* writes a payload and pushes the id; the client of consumer slot c pops  *)
(* an id, builds a BufferPtr from it and drops it (InputPort::read).  A    *)
(* further thread may call PortQueue::close.                               *)
(***************************************************************************)
EXTENDS Integers, Sequences, FiniteSets, TLC

\* ------------------------------------------------------------------ bounds
MAX_CONSUMERS == 3   \* PortQueueHeader::MAX_CONSUMERS, scaled down from 16
MAX_BUFFERS == 2     \* metadata slots, scaled down from 4096
BlockCount == 2      \* blocks of the pool
Capacity == 2        \* ring capacity of the port queue
MaxBufferId == 3     \* allocate_slot is not called beyond this id
MaxTail == 3         \* no push is started once tail has reached this
UintModulus == 65536 \* modulus of the unsigned 32-bit counters, scaled to 16 bits
MAX_BUFFER_POOLS == 3  \* descriptors of the pool registry, scaled down from 8
MaxBlockSize == 3      \* block sizes of the pools are 1 .. MaxBlockSize
MaxProcs == 4          \* processes that call the pool directly
MaxCreates == 3        \* PortQueue::create is called at most this often on the name
MaxConfigPools == 2    \* pools of a ShmConfig, scaled down from the 3 of default_config
MaxReleasers == 2      \* threads that construct and drop handles concurrently
MaxLockThreads == 3    \* threads that run core operations concurrently
MaxSlotIds == 5        \* the table alone: allocate_slot is not called beyond this id
TimeModulus == 8       \* modulus of the unsigned 64-bit timestamps, scaled to 3 bits
MaxAllocProcs == 2     \* processes that each own a SharedBufferAllocator

\* --------------------------------------------------------------- constants
INVALID_BUFFER_ID == 0
INVALID_POOL_ID == -1   \* numeric_limits<PoolId>::max(), outside the pool indices
NULL == -1
INVALID_CONSUMER_ID == -1   \* numeric_limits<ConsumerId>::max(), outside the slots

Consumers == 0 .. (MAX_CONSUMERS - 1)
Slots == 0 .. (MAX_BUFFERS - 1)
Blocks == 0 .. (BlockCount - 1)
PoolIndices == 0 .. (MAX_BUFFER_POOLS - 1)
Procs == 1 .. MaxProcs

VARIABLES
    \* BufferPool (one pool segment)
    pool_free_head, pool_free_list, pool_free_count, block_data,
    \* BufferMetadataTable
    entries, free_head, next_free, allocated_count, next_buffer_id,
    \* PortQueueHeader and ring
    tail, consumer_heads, consumer_active, consumer_count, closed, ring, mutex,
    \* producer thread: its BufferPtr, its position inside push and the value
    \* the last push returned, until the thread's next call
    prodHandle, prodPc, prodMode, prodArg, prodResult,
    \* client of consumer slot c: the BufferPtr it holds
    consHandle,
    \* thread calling close()
    closePc,
    \* history: ids pushed, payload at each push, ids returned by pop per
    \* consumer since its registration, tail at registration
    pushLog, pushPayload, popLog, regTail,
    \* BufferPoolRegistry: the pool descriptors; the size of the request an
    \* allocate is called with and the pool it selected
    pool_registry, req_size, sel_pool,
    \* callers of BufferPool::allocate_block directly: the blocks each process
    \* holds, and the value the last allocate_block returned
    held_blocks, last_block,
    \* a process inside SharedBufferAllocator::allocate / deallocate: its
    \* position and its locals
    allocFrame, deallocFrame,
    \* PortQueue::create on the queue's name: the number of calls so far and
    \* the value the last call returned
    create_calls, create_result,
    \* per registered pool, the number of its blocks that allocate(size) has taken
    pool_used,
    \* the ids got from SharedBufferAllocator::allocate directly whose initial
    \* reference the caller has not yet given back
    raw_owned,
    \* PortQueue::pop called directly: the consumer id of the last call, the
    \* value it returned, and the parity of the number of calls
    pop_result,
    \* register_consumer called directly: the value the last call returned
    \* and the parity of the number of calls
    reg_result,
    \* ShmManager: config_.pools as the sequence of the block sizes (a pool's
    \* name is its position; <<>> before the manager is constructed),
    \* initialized_, the keys of pools_, and the value its last call returned
    config, initialized_, pools_, mgr_result,
    \* the shm_name of each registry descriptor as the config position it was
    \* registered for (0: none), and per name the blocks taken from the
    \* segment of that name
    pool_shm_name, seg_used,
    \* history: the pool ids remove_pool has been called for
    removed_pools,
    \* the thread of client c inside a release: its position in remove_ref /
    \* deallocate and its locals; history: per buffer id, the number of
    \* free_block and of free_slot calls deallocate has made for it
    relFrame, free_calls,
    \* the four kinds of mutex: the thread that holds each (0: free), and per
    \* thread the core operation it is in and how far it has got
    lock_holder, lockFrame,
    \* ProcessInfo::last_heartbeat_ns of one process, the clock, and the
    \* arguments and the value of the last is_dead call
    last_heartbeat_ns, clock_ns, dead_result,
    \* one thread inside pop_with_timeout: its position, its consumer id,
    \* whether its deadline has passed, and what the last call returned
    tpPc, tpConsumer, tpExpired, tpResult,
    \* the last call of unregister_consumer: its argument, whether that
    \* consumer was active, and whether the call repeats the call before it
    unreg_call,
    \* SharedBufferAllocator::pools_ of each process: whether the process has
    \* mapped the pool
    mapped_pools

poolVars == <<pool_free_head, pool_free_list, pool_free_count>>
metaVars == <<entries, free_head, next_free, allocated_count, next_buffer_id>>
memVars == <<poolVars, metaVars>>
queueVars == <<tail, consumer_heads, consumer_active, consumer_count, ring>>
prodVars == <<prodHandle, prodPc, prodMode, prodArg, prodResult>>
consVars == <<consHandle>>
histVars == <<pushLog, pushPayload, popLog, regTail>>
selVars == <<pool_registry, req_size, sel_pool, pool_used>>
poolUseVars == <<held_blocks, last_block>>
stepVars == <<allocFrame, deallocFrame>>
createVars == <<create_calls, create_result>>
handleVars == <<raw_owned>>
popVars == <<pop_result>>
regVars == <<reg_result>>
mgrVars == <<config, initialized_, pools_, mgr_result, pool_shm_name, seg_used,
            removed_pools>>
relVars == <<relFrame, free_calls>>
lockVars == <<lock_holder, lockFrame>>
hbVars == <<last_heartbeat_ns, clock_ns, dead_result>>
tpVars == <<tpPc, tpConsumer, tpExpired, tpResult>>
unregVars == <<unreg_call>>
procVars == <<mapped_pools>>
auxVars == <<popVars, regVars, mgrVars, relVars, lockVars, hbVars, tpVars,
             unregVars, procVars>>
extVars == <<selVars, poolUseVars, stepVars, createVars, handleVars, auxVars>>
vars == <<memVars, block_data, queueVars, closed, mutex, prodVars, consVars,
          closePc, histVars, extVars>>

\* ------------------------------------------------------ shared memory image
\* The pool header and the metadata table as one value, so that the
\* allocator's functions compose.
Mem == [pool_free_head |-> pool_free_head, pool_free_list |-> pool_free_list,
        pool_free_count |-> pool_free_count,
        entries |-> entries, free_head |-> free_head, next_free |-> next_free,
        allocated_count |-> allocated_count, next_buffer_id |-> next_buffer_id]

SetMem(m) ==
    /\ pool_free_head' = m.pool_free_head
    /\ pool_free_list' = m.pool_free_list
    /\ pool_free_count' = m.pool_free_count
    /\ entries' = m.entries
    /\ free_head' = m.free_head
    /\ next_free' = m.next_free
    /\ allocated_count' = m.allocated_count
    /\ next_buffer_id' = m.next_buffer_id

EmptyHandle == [buffer_id |-> INVALID_BUFFER_ID, data_ |-> NULL]

\* ------------------------------------------------------ BufferMetadataTable
\* find_slot_by_id: first slot that is valid and carries the id, else -1
find_slot_by_id(ents, id) ==
    LET hits == {i \in Slots : ents[i].valid /\ ents[i].buffer_id = id}
    IN  IF hits = {} THEN -1 ELSE CHOOSE i \in hits : \A j \in hits : i <= j

\* a variant that names a buffer after its slot, so that ids come back
allocate_slot_reuse(m) ==
    IF m.free_head < 0 THEN [slot |-> -1, mem |-> m]
    ELSE LET slot == m.free_head IN
         [slot |-> slot,
          mem |-> [m EXCEPT !.free_head = m.next_free[slot],
                            !.next_buffer_id = m.next_buffer_id + 1,
                            !.entries[slot].buffer_id = slot + 1,
                            !.entries[slot].ref_count = 0,
                            !.entries[slot].valid = FALSE,
                            !.allocated_count = (m.allocated_count + 1) % UintModulus]]

\* a variant that leaves the id counter where it is
allocate_slot_same_id(m) ==
    IF m.free_head < 0 THEN [slot |-> -1, mem |-> m]
    ELSE LET slot == m.free_head IN
         [slot |-> slot,
          mem |-> [m EXCEPT !.free_head = m.next_free[slot],
                            !.entries[slot].buffer_id = m.next_buffer_id,
                            !.entries[slot].ref_count = 0,
                            !.entries[slot].valid = FALSE,
                            !.allocated_count = (m.allocated_count + 1) % UintModulus]]

\* allocate_slot: pop the free-slot list, take a fresh id, reserve the slot
allocate_slot(m) ==
    IF m.free_head < 0 THEN [slot |-> -1, mem |-> m]
    ELSE LET slot == m.free_head IN
         [slot |-> slot,
          mem |-> [m EXCEPT !.free_head = m.next_free[slot],
                            !.next_buffer_id = m.next_buffer_id + 1,
                            !.entries[slot].buffer_id = m.next_buffer_id,
                            !.entries[slot].ref_count = 0,
                            !.entries[slot].valid = FALSE,
                            !.allocated_count = (m.allocated_count + 1) % UintModulus]]

\* free_slot: invalidate, clear the id, push on the free-slot list
free_slot(m, slot) ==
    IF slot < 0 \/ slot >= MAX_BUFFERS THEN m
    ELSE [m EXCEPT !.entries[slot].valid = FALSE,
                   !.entries[slot].buffer_id = INVALID_BUFFER_ID,
                   !.next_free[slot] = m.free_head,
                   !.free_head = slot,
                   !.allocated_count = (m.allocated_count - 1) % UintModulus]

\* --------------------------------------------------------------- BufferPool
\* a variant that refuses the last free block
allocate_block_sparing(m) ==
    IF m.pool_free_head < 0 \/ m.pool_free_count <= 1 THEN [block |-> -1, mem |-> m]
    ELSE LET b == m.pool_free_head IN
         [block |-> b,
          mem |-> [m EXCEPT !.pool_free_head = m.pool_free_list[b],
                            !.pool_free_count = (m.pool_free_count - 1) % UintModulus]]

\* allocate_block: pop the head of the free-list, -1 when the list is empty
allocate_block(m) ==
    IF m.pool_free_head < 0 THEN [block |-> -1, mem |-> m]
    ELSE LET b == m.pool_free_head IN
         [block |-> b,
          mem |-> [m EXCEPT !.pool_free_head = m.pool_free_list[b],
                            !.pool_free_count = (m.pool_free_count - 1) % UintModulus]]

free_block(m, b) ==
    IF b < 0 \/ b >= BlockCount THEN m
    ELSE [m EXCEPT !.pool_free_list[b] = m.pool_free_head,
                   !.pool_free_head = b,
                   !.pool_free_count = (m.pool_free_count + 1) % UintModulus]

\* ---------------------------------------------------- SharedBufferAllocator
\* allocate: block, then slot (the block is given back when no slot is
\* left), then the metadata with ref_count 1 and valid
allocator_allocate(m) ==
    LET ab == allocate_block(m) IN
    IF ab.block < 0 THEN [id |-> INVALID_BUFFER_ID, mem |-> m]
    ELSE LET as == allocate_slot(ab.mem) IN
         IF as.slot < 0
         THEN [id |-> INVALID_BUFFER_ID, mem |-> free_block(ab.mem, ab.block)]
         ELSE [id |-> as.mem.entries[as.slot].buffer_id,
               mem |-> [as.mem EXCEPT !.entries[as.slot].block_index = ab.block,
                                      !.entries[as.slot].ref_count = 1,
                                      !.entries[as.slot].valid = TRUE]]

\* add_ref: fetch_add on the slot found for the id; nothing when not found
add_ref(m, id) ==
    LET s == find_slot_by_id(m.entries, id) IN
    IF s < 0 THEN m
    ELSE [m EXCEPT !.entries[s].ref_count = (@ + 1) % UintModulus]

\* remove_ref: fetch_sub on the slot found (an unsigned counter: 0 wraps)
remove_ref(m, id) ==
    LET s == find_slot_by_id(m.entries, id) IN
    IF s < 0 THEN m
    ELSE [m EXCEPT !.entries[s].ref_count = (@ - 1) % UintModulus]

\* the value remove_ref returns: the new count is zero
remove_ref_zero(m, id) ==
    LET s == find_slot_by_id(m.entries, id) IN
    s >= 0 /\ (m.entries[s].ref_count - 1) % UintModulus = 0

\* deallocate: only a slot found with ref_count 0 is released
deallocate(m, id) ==
    LET s == find_slot_by_id(m.entries, id) IN
    IF s < 0 THEN m
    ELSE IF m.entries[s].ref_count > 0 THEN m
    ELSE LET m1 == [m EXCEPT !.entries[s].valid = FALSE]
             m2 == free_block(m1, m.entries[s].block_index)
         IN  free_slot(m2, s)

\* get_buffer_data: the block of the slot found, NULL when not found
get_buffer_data(m, id) ==
    LET s == find_slot_by_id(m.entries, id) IN
    IF s < 0 THEN NULL ELSE m.entries[s].block_index

get_ref_count(m, id) ==
    LET s == find_slot_by_id(m.entries, id) IN
    IF s < 0 THEN 0 ELSE m.entries[s].ref_count

\* ---------------------------------------------------------------- BufferPtr
\* BufferPtr(buffer_id, allocator): add_ref, then cache the data pointer
BufferPtr_mem(m, id) ==
    IF id # INVALID_BUFFER_ID THEN add_ref(m, id) ELSE m

BufferPtr_handle(m, id) ==
    IF id # INVALID_BUFFER_ID
    THEN [buffer_id |-> id, data_ |-> get_buffer_data(add_ref(m, id), id)]
    ELSE EmptyHandle

\* release(): remove_ref and, when it reports zero, deallocate
release(m, h) ==
    IF h.buffer_id # INVALID_BUFFER_ID
    THEN IF remove_ref_zero(m, h.buffer_id)
         THEN deallocate(remove_ref(m, h.buffer_id), h.buffer_id)
         ELSE remove_ref(m, h.buffer_id)
    ELSE m

\* valid(): an id and a data pointer
handle_valid(h) == h.buffer_id # INVALID_BUFFER_ID /\ h.data_ # NULL

\* ---------------------------------------------------------------- PortQueue
\* a scan that keeps the fastest active consumer (sensitivity variant)
min_head_fastest(t, heads, active) ==
    LET act == {c \in Consumers : active[c]} IN
    IF act = {} THEN t
    ELSE heads[CHOOSE c \in act : \A d \in act : heads[c] >= heads[d]]

\* the scan of push for the slowest active consumer; tail when none is active
min_head(t, heads, active) ==
    LET act == {c \in Consumers : active[c]} IN
    IF act = {} THEN t
    ELSE heads[CHOOSE c \in act : \A d \in act : heads[c] <= heads[d]]

\* a full test that lets tail run one entry further (sensitivity variant)
is_full_late(t, heads, active) == t > min_head(t, heads, active) + Capacity

\* the full test of push and push_with_timeout
is_full(t, heads, active) == t >= min_head(t, heads, active) + Capacity

RECURSIVE add_ref_times(_, _, _)
add_ref_times(m, id, n) ==
    IF n <= 0 THEN m ELSE add_ref_times(add_ref(m, id), id, n - 1)

\* the reference bump of push: for (i = 1; i < consumer_count; ++i) add_ref
push_add_refs(m, id, cc) == add_ref_times(m, id, cc - 1)

\* the reference bump of push_with_timeout: one add_ref
push_with_timeout_add_refs(m, id, cc) == add_ref(m, id)

\* the refund loop of unregister_consumer over [head, tail)
RECURSIVE unregister_refund(_, _, _, _)
unregister_refund(m, rg, i, t) ==
    IF i >= t THEN m
    ELSE LET id == rg[i % Capacity] IN
         unregister_refund(IF id # INVALID_BUFFER_ID THEN remove_ref(m, id) ELSE m,
                           rg, i + 1, t)

\* a registration that starts the consumer at the oldest entry still in the
\* ring (sensitivity variant)
register_head_oldest(t) == IF t > Capacity THEN t - Capacity ELSE 0

\* the head register_consumer gives the new consumer: the current tail
register_head(t) == t

\* a variant of the slot search that never takes the last slot
register_slot_short(active) ==
    LET free == {c \in Consumers : ~active[c] /\ c < MAX_CONSUMERS - 1} IN
    IF free = {} THEN -1 ELSE CHOOSE c \in free : \A d \in free : c <= d

\* the slot register_consumer takes: the first inactive one, -1 when none
register_slot(active) ==
    LET free == {c \in Consumers : ~active[c]} IN
    IF free = {} THEN -1 ELSE CHOOSE c \in free : \A d \in free : c <= d

\* a pop that reads the entry after the head (sensitivity variant)
pop_entry_next(rg, head) == rg[(head + 1) % Capacity]

\* the entry pop reads for a consumer
pop_entry(rg, head) == rg[head % Capacity]

\* a variant of the all_passed test that lets a tied consumer pass
pop_all_passed_eager(heads, active, head) ==
    \A i \in Consumers : active[i] => heads[i] >= head

\* the all_passed test of pop, on the heads after the increment
pop_all_passed(heads, active, head) ==
    \A i \in Consumers : active[i] => heads[i] > head

\* size(consumer_id)
size(c) ==
    IF ~consumer_active[c] THEN 0
    ELSE IF tail > consumer_heads[c] THEN tail - consumer_heads[c] ELSE 0

\* not_full.notify_all(): a producer blocked in wait becomes runnable
notify_all(pc) == IF pc = "waiting" THEN "woken" ELSE pc

\* --------------------------------------------------------------------- Init
InitBase ==
    /\ pool_free_head = 0
    /\ pool_free_list = [b \in Blocks |-> IF b + 1 < BlockCount THEN b + 1 ELSE -1]
    /\ pool_free_count = BlockCount
    /\ block_data = [b \in Blocks |-> 0]
    /\ entries = [s \in Slots |-> [buffer_id |-> INVALID_BUFFER_ID, block_index |-> 0,
                                   ref_count |-> 0, valid |-> FALSE]]
    /\ free_head = 0
    /\ next_free = [s \in Slots |-> IF s + 1 < MAX_BUFFERS THEN s + 1 ELSE -1]
    /\ allocated_count = 0
    /\ next_buffer_id = 1
    /\ tail = 0
    /\ consumer_heads = [c \in Consumers |-> 0]
    /\ consumer_active = [c \in Consumers |-> FALSE]
    /\ consumer_count = 0
    /\ closed = FALSE
    /\ ring = [i \in 0 .. (Capacity - 1) |-> INVALID_BUFFER_ID]
    /\ mutex = FALSE
    /\ prodHandle = EmptyHandle
    /\ prodPc = "idle"
    /\ prodMode = "push"
    /\ prodArg = INVALID_BUFFER_ID
    /\ prodResult = "none"
    /\ consHandle = [c \in Consumers |-> EmptyHandle]
    /\ closePc = "idle"
    /\ pushLog = <<>>
    /\ pushPayload = <<>>
    /\ popLog = [c \in Consumers |-> <<>>]
    /\ regTail = [c \in Consumers |-> 0]

\* BufferPoolInfo(): an unused descriptor
NoPool == [pool_id |-> INVALID_POOL_ID, block_size |-> 0, active |-> FALSE]

\* BufferPoolRegistry::initialize; no request has been made
InitSel ==
    /\ pool_registry = [i \in PoolIndices |-> NoPool]
    /\ req_size = 0
    /\ sel_pool = INVALID_POOL_ID
    /\ pool_used = [i \in PoolIndices |-> 0]

\* no block is held through a direct allocate_block, and no call of
\* allocate_block has returned
InitPoolUse ==
    /\ held_blocks = [p \in Procs |-> {}]
    /\ last_block = <<>>

\* no process is inside allocate or deallocate
IdleFrame == [pc |-> "idle", id |-> INVALID_BUFFER_ID, block |-> -1, slot |-> -1]

InitStep ==
    /\ allocFrame = IdleFrame
    /\ deallocFrame = IdleFrame

\* the queue exists: its producer has created it, create returned true
InitCreate ==
    /\ create_calls = 1
    /\ create_result = "true"

\* nothing has been allocated
InitHandles == raw_owned = {}

\* pop has not been called
InitPop == pop_result = [consumer |-> -1, ok |-> FALSE, seq |-> 0]

\* register_consumer has not been called directly
InitReg == reg_result = [id |-> INVALID_CONSUMER_ID, seq |-> 0]

ConfigNames == 1 .. MaxConfigPools

\* no ShmManager has been constructed on the registry
InitManager ==
    /\ config = <<>>
    /\ initialized_ = FALSE
    /\ pools_ = {}
    /\ mgr_result = [op |-> "none", ok |-> FALSE, seq |-> 0]
    /\ pool_shm_name = [i \in PoolIndices |-> 0]
    /\ seg_used = [k \in ConfigNames |-> 0]
    /\ removed_pools = {}

\* no thread is inside a release, and deallocate has freed nothing
InitRelease ==
    /\ relFrame = [c \in Consumers |-> IdleFrame]
    /\ free_calls = [id \in 1 .. MaxBufferId |-> [block |-> 0, slot |-> 0]]

Mutexes == {"registry", "pool", "table", "queue"}
LockThreads == 1 .. MaxLockThreads

\* every mutex is free and no thread is inside an operation
InitLocks ==
    /\ lock_holder = [m \in Mutexes |-> 0]
    /\ lockFrame = [t \in LockThreads |-> [op |-> "none", pc |-> 1]]

Times == 0 .. (TimeModulus - 1)

\* ProcessInfo(): last_heartbeat_ns(0); is_dead has not been called
InitHeartbeat ==
    /\ last_heartbeat_ns = 0
    /\ clock_ns = 0
    /\ dead_result = [now |-> 0, timeout |-> 0, last |-> 0, dead |-> FALSE, seq |-> 0]

\* no thread is inside pop_with_timeout
InitTimedPop ==
    /\ tpPc = "idle"
    /\ tpConsumer = 0
    /\ tpExpired = FALSE
    /\ tpResult = "none"

\* unregister_consumer has not been called
InitUnregister ==
    unreg_call = [consumer |-> INVALID_CONSUMER_ID, active |-> FALSE,
                  second |-> FALSE, seq |-> 0]

AllocProcs == 1 .. MaxAllocProcs

\* SharedBufferAllocator(registry, process_id): pools_ is empty
InitProcs == mapped_pools = [p \in AllocProcs |-> FALSE]

Init ==
    /\ InitBase /\ InitSel /\ InitPoolUse /\ InitStep /\ InitCreate /\ InitHandles
    /\ InitPop /\ InitReg /\ InitManager /\ InitRelease /\ InitLocks
    /\ InitHeartbeat /\ InitTimedPop /\ InitUnregister /\ InitProcs

\* ----------------------------------------------------------------- producer
\* the payload the producer writes into buffer id (the tests write a counter)
payload_of(id) == 10 + id

\* ShmManager::allocate, then the producer writes the payload into the block
Allocate ==
    /\ prodPc = "idle"
    /\ prodHandle = EmptyHandle
    /\ next_buffer_id <= MaxBufferId
    /\ LET r == allocator_allocate(Mem) IN
       IF r.id # INVALID_BUFFER_ID
       THEN LET h == BufferPtr_handle(r.mem, r.id) IN
            /\ SetMem(BufferPtr_mem(r.mem, r.id))
            /\ prodHandle' = h
            /\ block_data' = IF h.data_ # NULL
                             THEN [block_data EXCEPT ![h.data_] = payload_of(h.buffer_id)]
                             ELSE block_data
       ELSE /\ SetMem(r.mem)
            /\ UNCHANGED <<prodHandle, block_data>>
    /\ prodResult' = "none"
    /\ UNCHANGED <<queueVars, closed, mutex, prodPc, prodMode, prodArg, consVars,
                   closePc, histVars>>
    /\ UNCHANGED extVars

\* ~BufferPtr of the producer's handle
DropProducer ==
    /\ prodPc = "idle"
    /\ prodHandle # EmptyHandle
    /\ SetMem(release(Mem, prodHandle))
    /\ prodHandle' = EmptyHandle
    /\ prodResult' = "none"
    /\ UNCHANGED <<block_data, queueVars, closed, mutex, prodPc, prodMode, prodArg,
                   consVars, closePc, histVars>>
    /\ UNCHANGED extVars

\* the values of a push frame once the call has returned res
PushReturn(res) ==
    /\ prodPc' = "idle"
    /\ prodMode' = "push"
    /\ prodArg' = INVALID_BUFFER_ID
    /\ prodResult' = res

\* entry of push / push_with_timeout: the unlocked test of closed, then
\* scoped_lock lock(header_->mutex)
PushBegin(id, mode) ==
    /\ prodPc = "idle"
    /\ tail < MaxTail
    /\ ~mutex
    /\ IF closed
       THEN PushReturn("false") /\ UNCHANGED mutex
       ELSE /\ prodPc' = "loop" /\ prodMode' = mode /\ prodArg' = id
            /\ prodResult' = "none" /\ mutex' = TRUE
    /\ UNCHANGED <<memVars, block_data, queueVars, closed, prodHandle,
                   consVars, closePc, histVars>>
    /\ UNCHANGED extVars

\* OutputPort::write / write_with_timeout: the id of a valid handle is
\* pushed; the producer pushes each buffer once
Write(mode) ==
    /\ handle_valid(prodHandle)
    /\ \A i \in 1 .. Len(pushLog) : pushLog[i] # prodHandle.buffer_id
    /\ PushBegin(prodHandle.buffer_id, mode)

\* PortQueue::push / push_with_timeout called with a bare id, as the queue
\* tests do: the ids are 1, 2, 3, ...
RawPush(mode) ==
    /\ prodHandle = EmptyHandle
    /\ PushBegin(Len(pushLog) + 1, mode)

\* top of the wait loop: if (closed) return false
PushCheckClosed ==
    /\ prodPc = "loop"
    /\ IF closed
       THEN PushReturn("false") /\ mutex' = FALSE
       ELSE prodPc' = "check" /\ UNCHANGED <<prodMode, prodArg, prodResult, mutex>>
    /\ UNCHANGED <<memVars, block_data, queueVars, closed, prodHandle,
                   consVars, closePc, histVars>>
    /\ UNCHANGED extVars

\* a wait that keeps the mutex locked while the thread sleeps
wait_mutex_kept == TRUE

\* not_full.wait(lock): the state of the queue mutex while the thread
\* sleeps; the condition variable unlocks it
wait_mutex == FALSE

\* the rest of the loop body: wait when full, else write the entry, bump the
\* references, advance tail and return true
PushCheckFull ==
    /\ prodPc = "check"
    /\ IF is_full(tail, consumer_heads, consumer_active)
       THEN /\ prodPc' = "waiting"
            /\ mutex' = wait_mutex
            /\ UNCHANGED <<memVars, queueVars, prodMode, prodArg, prodResult,
                           histVars>>
       ELSE /\ ring' = [ring EXCEPT ![tail % Capacity] = prodArg]
            /\ SetMem(IF prodMode = "push"
                      THEN push_add_refs(Mem, prodArg, consumer_count)
                      ELSE push_with_timeout_add_refs(Mem, prodArg, consumer_count))
            /\ tail' = tail + 1
            /\ PushReturn("true")
            /\ mutex' = FALSE
            /\ pushLog' = Append(pushLog, prodArg)
            /\ pushPayload' = Append(pushPayload,
                                     IF prodHandle.data_ # NULL
                                     THEN block_data[prodHandle.data_] ELSE 0)
            /\ UNCHANGED <<consumer_heads, consumer_active, consumer_count, popLog,
                           regTail>>
    /\ UNCHANGED <<block_data, closed, prodHandle, consVars, closePc>>
    /\ UNCHANGED extVars

\* return from not_full.wait / timed_wait after a notification: the mutex is
\* taken again; the timed variant then gives up when the deadline has passed
PushWake(expired) ==
    /\ prodPc = "woken"
    /\ ~mutex
    /\ IF prodMode = "timed" /\ expired
       THEN PushReturn("false") /\ mutex' = FALSE
       ELSE /\ prodPc' = "loop" /\ mutex' = TRUE
            /\ UNCHANGED <<prodMode, prodArg, prodResult>>
    /\ UNCHANGED <<memVars, block_data, queueVars, closed, prodHandle,
                   consVars, closePc, histVars>>
    /\ UNCHANGED extVars

\* an expiry that still publishes the entry (sensitivity variant)
PushTimeout_publishing ==
    /\ prodPc = "waiting"
    /\ prodMode = "timed"
    /\ ~mutex
    /\ PushReturn("false")
    /\ ring' = [ring EXCEPT ![tail % Capacity] = prodArg]
    /\ SetMem(push_with_timeout_add_refs(Mem, prodArg, consumer_count))
    /\ tail' = tail + 1
    /\ pushLog' = pushLog
    /\ UNCHANGED <<block_data, consumer_heads, consumer_active, consumer_count,
                   closed, mutex, prodHandle, consVars, closePc, pushPayload,
                   popLog, regTail>>
    /\ UNCHANGED extVars

\* timed_wait returns false: push_with_timeout returns false
PushTimeout ==
    /\ prodPc = "waiting"
    /\ prodMode = "timed"
    /\ ~mutex
    /\ PushReturn("false")
    /\ UNCHANGED <<memVars, block_data, queueVars, closed, mutex, prodHandle,
                   consVars, closePc, histVars>>
    /\ UNCHANGED extVars

\* ---------------------------------------------------------------- consumers
RegisterConsumer ==
    /\ ~mutex
    /\ LET i == register_slot(consumer_active) IN
       IF i < 0
       THEN UNCHANGED <<consumer_heads, consumer_active, consumer_count, popLog,
                        regTail>>
       ELSE /\ consumer_heads' = [consumer_heads EXCEPT ![i] = register_head(tail)]
            /\ consumer_active' = [consumer_active EXCEPT ![i] = TRUE]
            /\ consumer_count' = (consumer_count + 1) % UintModulus
            /\ popLog' = [popLog EXCEPT ![i] = <<>>]
            /\ regTail' = [regTail EXCEPT ![i] = tail]
    /\ UNCHANGED <<memVars, block_data, tail, ring, closed, mutex, prodVars,
                   consVars, closePc, pushLog, pushPayload>>
    /\ UNCHANGED extVars

\* register_consumer called directly; the caller keeps the id returned
RegisterCall ==
    /\ ~mutex
    /\ LET i == register_slot(consumer_active) IN
       IF i < 0
       THEN /\ reg_result' = [id |-> INVALID_CONSUMER_ID, seq |-> 1 - reg_result.seq]
            /\ UNCHANGED <<consumer_heads, consumer_active, consumer_count, popLog,
                           regTail>>
       ELSE /\ reg_result' = [id |-> i, seq |-> 1 - reg_result.seq]
            /\ consumer_heads' = [consumer_heads EXCEPT ![i] = register_head(tail)]
            /\ consumer_active' = [consumer_active EXCEPT ![i] = TRUE]
            /\ consumer_count' = (consumer_count + 1) % UintModulus
            /\ popLog' = [popLog EXCEPT ![i] = <<>>]
            /\ regTail' = [regTail EXCEPT ![i] = tail]
    /\ UNCHANGED <<memVars, block_data, tail, ring, closed, mutex, prodVars,
                   consVars, closePc, pushLog, pushPayload>>
    /\ UNCHANGED <<selVars, poolUseVars, stepVars, createVars, handleVars, popVars,
                   mgrVars, relVars, lockVars, hbVars, tpVars, unregVars,
                   procVars>>

\* unregister_consumer; the client has dropped its handle before (teardown
\* order: handles first, then the queue registration)
UnregisterConsumer(c) ==
    /\ ~mutex
    /\ consHandle[c] = EmptyHandle
    /\ IF ~consumer_active[c]
       THEN UNCHANGED <<memVars, consumer_active, consumer_count, prodPc, popLog,
                        regTail>>
       ELSE /\ SetMem(unregister_refund(Mem, ring, consumer_heads[c], tail))
            /\ consumer_active' = [consumer_active EXCEPT ![c] = FALSE]
            /\ consumer_count' = (consumer_count - 1) % UintModulus
            /\ prodPc' = notify_all(prodPc)
            /\ popLog' = [popLog EXCEPT ![c] = <<>>]
            /\ regTail' = [regTail EXCEPT ![c] = 0]
    /\ UNCHANGED <<block_data, tail, consumer_heads, ring, closed, mutex,
                   prodHandle, prodMode, prodArg, prodResult, consVars, closePc,
                   pushLog, pushPayload>>
    /\ UNCHANGED extVars

\* a variant of the body of pop that advances the head by two
PopTake_skipping(c) ==
    LET head == consumer_heads[c]
        heads1 == [consumer_heads EXCEPT ![c] = head + 2]
    IN  /\ consumer_heads' = heads1
        /\ prodPc' = IF pop_all_passed(heads1, consumer_active, head)
                     THEN notify_all(prodPc) ELSE prodPc
        /\ popLog' = [popLog EXCEPT ![c] = Append(@, pop_entry(ring, head))]

\* the body of pop for an active consumer with an unread entry: advance the
\* head and notify the producer when every active head has passed the entry
PopTake(c) ==
    LET head == consumer_heads[c]
        heads1 == [consumer_heads EXCEPT ![c] = head + 1]
    IN  /\ consumer_heads' = heads1
        /\ prodPc' = IF pop_all_passed(heads1, consumer_active, head)
                     THEN notify_all(prodPc) ELSE prodPc
        /\ popLog' = [popLog EXCEPT ![c] = Append(@, pop_entry(ring, head))]

\* pop succeeds for an active consumer whose head is behind tail
pop_ok(c) == consumer_active[c] /\ consumer_heads[c] < tail

\* PortQueue::pop called directly; the caller keeps only the id
Pop(c) ==
    /\ ~mutex
    /\ consHandle[c] = EmptyHandle
    /\ IF pop_ok(c)
       THEN PopTake(c)
       ELSE UNCHANGED <<consumer_heads, prodPc, popLog>>
    /\ UNCHANGED <<memVars, block_data, tail, consumer_active, consumer_count, ring,
                   closed, mutex, prodHandle, prodMode, prodArg, prodResult,
                   consVars, closePc, pushLog, pushPayload, regTail>>
    /\ UNCHANGED extVars

\* PortQueue::pop called with any consumer id, in range or not; the caller
\* keeps only the id and the return value
PopCall(c) ==
    /\ ~mutex
    /\ IF c \in Consumers /\ pop_ok(c)
       THEN PopTake(c)
       ELSE UNCHANGED <<consumer_heads, prodPc, popLog>>
    /\ pop_result' = [consumer |-> c, ok |-> c \in Consumers /\ pop_ok(c),
                      seq |-> 1 - pop_result.seq]
    /\ UNCHANGED <<memVars, block_data, tail, consumer_active, consumer_count, ring,
                   closed, mutex, prodHandle, prodMode, prodArg, prodResult,
                   consVars, closePc, pushLog, pushPayload, regTail>>
    /\ UNCHANGED <<selVars, poolUseVars, stepVars, createVars, handleVars, regVars,
                   mgrVars, relVars, lockVars, hbVars, tpVars, unregVars,
                   procVars>>

\* InputPort::read: pop for consumer slot c, then
\* buffer = BufferPtr(buffer_id, allocator)
Read(c) ==
    /\ ~mutex
    /\ consHandle[c] = EmptyHandle
    /\ IF pop_ok(c)
       THEN LET id == pop_entry(ring, consumer_heads[c]) IN
            /\ PopTake(c)
            /\ SetMem(BufferPtr_mem(Mem, id))
            /\ consHandle' = [consHandle EXCEPT ![c] = BufferPtr_handle(Mem, id)]
       ELSE UNCHANGED <<memVars, consumer_heads, consHandle, prodPc, popLog>>
    /\ UNCHANGED <<block_data, tail, consumer_active, consumer_count, ring,
                   closed, mutex, prodHandle, prodMode, prodArg, prodResult,
                   closePc, pushLog, pushPayload, regTail>>
    /\ UNCHANGED extVars

\* ~BufferPtr of the consumer's handle
DropConsumer(c) ==
    /\ consHandle[c] # EmptyHandle
    /\ SetMem(release(Mem, consHandle[c]))
    /\ consHandle' = [consHandle EXCEPT ![c] = EmptyHandle]
    /\ UNCHANGED <<block_data, queueVars, closed, mutex, prodVars, closePc, histVars>>
    /\ UNCHANGED extVars

\* -------------------------------------------------------------------- close
\* close(): closed.store(true) ...
CloseStore ==
    /\ closePc = "idle"
    /\ closed' = TRUE
    /\ closePc' = "notify"
    /\ UNCHANGED <<memVars, block_data, queueVars, mutex, prodVars, consVars,
                   histVars>>
    /\ UNCHANGED extVars

\* ... then not_full.notify_all(), neither under the mutex
CloseNotify ==
    /\ closePc = "notify"
    /\ prodPc' = notify_all(prodPc)
    /\ closePc' = "done"
    /\ UNCHANGED <<memVars, block_data, queueVars, closed, mutex, prodHandle,
                   prodMode, prodArg, prodResult, consVars, histVars>>
    /\ UNCHANGED extVars

\* ------------------------------------------- direct use of the allocator
\* what the handle operations leave alone
handleFrame == <<block_data, queueVars, closed, mutex, prodVars, closePc, histVars,
                 selVars, poolUseVars, stepVars, createVars, auxVars>>

BufferIds == 1 .. MaxBufferId

\* id = allocator.allocate(size): the caller owns the initial reference
RawAllocate ==
    /\ next_buffer_id <= MaxBufferId
    /\ LET r == allocator_allocate(Mem) IN
       /\ SetMem(r.mem)
       /\ raw_owned' = IF r.id # INVALID_BUFFER_ID THEN raw_owned \cup {r.id}
                       ELSE raw_owned
    /\ UNCHANGED <<consHandle, handleFrame>>

\* if (allocator.remove_ref(id)) allocator.deallocate(id): the caller gives
\* its initial reference back
RawRelease(id) ==
    /\ id \in raw_owned
    /\ SetMem(release(Mem, [buffer_id |-> id, data_ |-> NULL]))
    /\ raw_owned' = raw_owned \ {id}
    /\ UNCHANGED <<consHandle, handleFrame>>

\* BufferPtr h(id, allocator) for an id that allocate has returned at some
\* time, live or not
Construct(c, id) ==
    /\ consHandle[c] = EmptyHandle
    /\ id < next_buffer_id
    /\ SetMem(BufferPtr_mem(Mem, id))
    /\ consHandle' = [consHandle EXCEPT ![c] = BufferPtr_handle(Mem, id)]
    /\ UNCHANGED <<raw_owned, handleFrame>>

\* a copy that takes no reference
Clone_shallow(c, d) ==
    /\ c # d
    /\ consHandle[c] # EmptyHandle
    /\ consHandle[d] = EmptyHandle
    /\ consHandle' = [consHandle EXCEPT ![d] = consHandle[c]]
    /\ UNCHANGED <<memVars, raw_owned, handleFrame>>

\* BufferPtr d(c): the copy constructor
Clone(c, d) ==
    /\ c # d
    /\ consHandle[c] # EmptyHandle
    /\ consHandle[d] = EmptyHandle
    /\ SetMem(add_ref(Mem, consHandle[c].buffer_id))
    /\ consHandle' = [consHandle EXCEPT ![d] = consHandle[c]]
    /\ UNCHANGED <<raw_owned, handleFrame>>

\* d = c: copy assignment to a handle that holds something
CopyAssign(c, d) ==
    /\ c # d
    /\ consHandle[c] # EmptyHandle
    /\ consHandle[d] # EmptyHandle
    /\ SetMem(add_ref(release(Mem, consHandle[d]), consHandle[c].buffer_id))
    /\ consHandle' = [consHandle EXCEPT ![d] = consHandle[c]]
    /\ UNCHANGED <<raw_owned, handleFrame>>

\* BufferPtr d(std::move(c)): the move constructor
MoveConstruct(c, d) ==
    /\ c # d
    /\ consHandle[c] # EmptyHandle
    /\ consHandle[d] = EmptyHandle
    /\ consHandle' = [consHandle EXCEPT ![d] = consHandle[c], ![c] = EmptyHandle]
    /\ UNCHANGED <<memVars, raw_owned, handleFrame>>

\* d = std::move(c): move assignment to a handle that holds something
MoveAssign(c, d) ==
    /\ c # d
    /\ consHandle[c] # EmptyHandle
    /\ consHandle[d] # EmptyHandle
    /\ SetMem(release(Mem, consHandle[d]))
    /\ consHandle' = [consHandle EXCEPT ![d] = consHandle[c], ![c] = EmptyHandle]
    /\ UNCHANGED <<raw_owned, handleFrame>>

\* h.reset()
Reset(c) ==
    /\ consHandle[c] # EmptyHandle
    /\ SetMem(release(Mem, consHandle[c]))
    /\ consHandle' = [consHandle EXCEPT ![c] = EmptyHandle]
    /\ UNCHANGED <<raw_owned, handleFrame>>

\* --------------------------------- allocate and deallocate, step by step
\* what the steps of allocate and deallocate leave alone
stepFrame == <<block_data, queueVars, closed, mutex, prodVars, consVars, closePc,
               histVars, selVars, poolUseVars, createVars, auxVars>>

\* allocate, step 3: pool->allocate_block()
AllocBlock ==
    /\ allocFrame.pc = "idle"
    /\ next_buffer_id <= MaxBufferId
    /\ LET ab == allocate_block(Mem) IN
       /\ SetMem(ab.mem)
       /\ allocFrame' = IF ab.block < 0 THEN IdleFrame
                        ELSE [IdleFrame EXCEPT !.pc = "slot", !.block = ab.block]
    /\ UNCHANGED <<deallocFrame, raw_owned, stepFrame>>

\* a step 4 that keeps the block when no slot is left (sensitivity variant)
AllocSlot_leaking ==
    /\ allocFrame.pc = "slot"
    /\ LET as == allocate_slot(Mem) IN
       IF as.slot < 0
       THEN /\ SetMem(Mem)
            /\ allocFrame' = IdleFrame
       ELSE /\ SetMem(as.mem)
            /\ allocFrame' = [allocFrame EXCEPT !.pc = "init", !.slot = as.slot,
                                                !.id = as.mem.entries[as.slot].buffer_id]
    /\ UNCHANGED <<deallocFrame, raw_owned, stepFrame>>

\* allocate, step 4: allocate_slot(); the block goes back when no slot is left
AllocSlot ==
    /\ allocFrame.pc = "slot"
    /\ LET as == allocate_slot(Mem) IN
       IF as.slot < 0
       THEN /\ SetMem(free_block(Mem, allocFrame.block))
            /\ allocFrame' = IdleFrame
       ELSE /\ SetMem(as.mem)
            /\ allocFrame' = [allocFrame EXCEPT !.pc = "init", !.slot = as.slot,
                                                !.id = as.mem.entries[as.slot].buffer_id]
    /\ UNCHANGED <<deallocFrame, raw_owned, stepFrame>>

\* allocate, step 5 up to meta.ref_count.store(1)
AllocInit ==
    /\ allocFrame.pc = "init"
    /\ entries' = [entries EXCEPT ![allocFrame.slot].block_index = allocFrame.block,
                                  ![allocFrame.slot].ref_count = 1]
    /\ allocFrame' = [allocFrame EXCEPT !.pc = "publish"]
    /\ UNCHANGED <<poolVars, free_head, next_free, allocated_count, next_buffer_id,
                   deallocFrame, raw_owned, stepFrame>>

\* allocate, the end of step 5: meta.set_valid(true); return meta.buffer_id
AllocPublish ==
    /\ allocFrame.pc = "publish"
    /\ entries' = [entries EXCEPT ![allocFrame.slot].valid = TRUE]
    /\ raw_owned' = raw_owned \cup {allocFrame.id}
    /\ allocFrame' = IdleFrame
    /\ UNCHANGED <<poolVars, free_head, next_free, allocated_count, next_buffer_id,
                   deallocFrame, stepFrame>>

\* the owner of an id gives its reference back: remove_ref, and deallocate
\* is entered when remove_ref reports zero
StepRemoveRef(id) ==
    /\ deallocFrame.pc = "idle"
    /\ id \in raw_owned
    /\ SetMem(remove_ref(Mem, id))
    /\ raw_owned' = raw_owned \ {id}
    /\ deallocFrame' = IF remove_ref_zero(Mem, id)
                       THEN [IdleFrame EXCEPT !.pc = "find", !.id = id]
                       ELSE IdleFrame
    /\ UNCHANGED <<allocFrame, stepFrame>>

\* deallocate, steps 1 and 2: find_slot_by_id, then the ref_count check
DeallocFind ==
    /\ deallocFrame.pc = "find"
    /\ LET s == find_slot_by_id(entries, deallocFrame.id) IN
       deallocFrame' = IF s < 0 \/ entries[s].ref_count > 0 THEN IdleFrame
                       ELSE [deallocFrame EXCEPT !.pc = "invalidate", !.slot = s]
    /\ UNCHANGED <<memVars, allocFrame, raw_owned, stepFrame>>

\* deallocate, steps 3 and 4: meta.set_valid(false), read block_index
DeallocInvalidate ==
    /\ deallocFrame.pc = "invalidate"
    /\ entries' = [entries EXCEPT ![deallocFrame.slot].valid = FALSE]
    /\ deallocFrame' = [deallocFrame EXCEPT
                           !.pc = "free_block",
                           !.block = entries[deallocFrame.slot].block_index]
    /\ UNCHANGED <<poolVars, free_head, next_free, allocated_count, next_buffer_id,
                   allocFrame, raw_owned, stepFrame>>

\* deallocate, step 5: free_block(block_index)
DeallocFreeBlock ==
    /\ deallocFrame.pc = "free_block"
    /\ SetMem(free_block(Mem, deallocFrame.block))
    /\ deallocFrame' = [deallocFrame EXCEPT !.pc = "free_slot"]
    /\ UNCHANGED <<allocFrame, raw_owned, stepFrame>>

\* deallocate, step 6: free_slot(meta_slot)
DeallocFreeSlot ==
    /\ deallocFrame.pc = "free_slot"
    /\ SetMem(free_slot(Mem, deallocFrame.slot))
    /\ deallocFrame' = IdleFrame
    /\ UNCHANGED <<allocFrame, raw_owned, stepFrame>>

\* ------------------------------------------------- direct use of the pool
\* the blocks that some process has got from allocate_block and not given
\* to free_block since
AllHeld == UNION {held_blocks[p] : p \in Procs}

\* process p calls BufferPool::allocate_block (under pool_mutex); the
\* counter is kept within the model's range
PoolAllocate(p) ==
    /\ pool_free_count > 0 \/ pool_free_head < 0
    /\ LET r == allocate_block(Mem) IN
       /\ pool_free_head' = r.mem.pool_free_head
       /\ pool_free_list' = r.mem.pool_free_list
       /\ pool_free_count' = r.mem.pool_free_count
       /\ last_block' = <<r.block>>
       /\ held_blocks' = IF r.block >= 0
                         THEN [held_blocks EXCEPT ![p] = @ \cup {r.block}]
                         ELSE held_blocks
    /\ UNCHANGED <<metaVars, block_data, queueVars, closed, mutex, prodVars, consVars,
                   closePc, histVars, selVars, stepVars, createVars,
                   handleVars, auxVars>>

\* process p calls BufferPool::free_block(b) (under pool_mutex); the counter
\* is kept within the model's range
PoolFree(p, b) ==
    /\ pool_free_count <= BlockCount
    /\ LET m == free_block(Mem, b) IN
       /\ pool_free_head' = m.pool_free_head
       /\ pool_free_list' = m.pool_free_list
       /\ pool_free_count' = m.pool_free_count
    /\ last_block' = <<>>
    /\ held_blocks' = [q \in Procs |-> held_blocks[q] \ {b}]
    /\ UNCHANGED <<metaVars, block_data, queueVars, closed, mutex, prodVars, consVars,
                   closePc, histVars, selVars, stepVars, createVars,
                   handleVars, auxVars>>

\* free_block of a block that the calling process holds
PoolFreeOwn(p, b) == b \in held_blocks[p] /\ PoolFree(p, b)

\* ----------------------------------------------------------- pool selection
\* BufferPoolRegistry::register_pool: the first descriptor without a pool id
free_pool_slots(reg) == {i \in PoolIndices : reg[i].pool_id = INVALID_POOL_ID}

register_pool(reg, bs) ==
    IF free_pool_slots(reg) = {} THEN reg
    ELSE LET i == CHOOSE k \in free_pool_slots(reg) :
                      \A j \in free_pool_slots(reg) : k <= j
         IN  [reg EXCEPT ![i].pool_id = i, ![i].block_size = bs, ![i].active = TRUE]

\* BufferPoolRegistry::unregister_pool: block_size is left as it was
unregister_pool(reg, p) ==
    IF p \in PoolIndices /\ reg[p].pool_id = p
    THEN [reg EXCEPT ![p].pool_id = INVALID_POOL_ID, ![p].active = FALSE]
    ELSE reg

\* the pools a request of this size fits in
fitting_pools(reg, sz) == {i \in PoolIndices : reg[i].active /\ reg[i].block_size >= sz}

\* SharedBufferAllocator::select_pool: the first descriptor, in index order,
\* that is active and large enough
select_pool(reg, sz) ==
    IF fitting_pools(reg, sz) = {} THEN INVALID_POOL_ID
    ELSE reg[CHOOSE i \in fitting_pools(reg, sz) :
                 \A j \in fitting_pools(reg, sz) : i <= j].pool_id

\* ShmManager::select_pool_for_size: over the manager's pools in pool id
\* order, the first of those with the smallest sufficient block_size
select_pool_for_size(reg, sz) ==
    IF fitting_pools(reg, sz) = {} THEN INVALID_POOL_ID
    ELSE CHOOSE i \in fitting_pools(reg, sz) :
             \A j \in fitting_pools(reg, sz) :
                 \/ reg[i].block_size < reg[j].block_size
                 \/ reg[i].block_size = reg[j].block_size /\ i <= j

\* ShmManager::add_pool
RegisterPool(bs) ==
    /\ free_pool_slots(pool_registry) # {}
    /\ pool_registry' = register_pool(pool_registry, bs)
    /\ UNCHANGED <<req_size, sel_pool, pool_used>>
    /\ UNCHANGED <<memVars, block_data, queueVars, closed, mutex, prodVars, consVars,
                   closePc, histVars, poolUseVars, stepVars, createVars,
                   handleVars, auxVars>>

\* BufferPoolRegistry::unregister_pool of a pool none of whose blocks is in use
UnregisterPool(p) ==
    /\ pool_registry[p].active
    /\ pool_used[p] = 0
    /\ pool_registry' = unregister_pool(pool_registry, p)
    /\ UNCHANGED <<req_size, sel_pool, pool_used>>
    /\ UNCHANGED <<memVars, block_data, queueVars, closed, mutex, prodVars, consVars,
                   closePc, histVars, poolUseVars, stepVars, createVars,
                   handleVars, auxVars>>

\* ShmManager::allocate(size) with several pools: the manager's own selection
\* only decides whether the call goes on; the block is taken from the pool
\* that SharedBufferAllocator::allocate selects, then the slot is taken
AllocateSize(sz) ==
    /\ next_buffer_id <= MaxBufferId
    /\ req_size' = sz
    /\ LET pre == select_pool_for_size(pool_registry, sz)
           p == select_pool(pool_registry, sz)
           as == allocate_slot(Mem)
       IN  IF pre = INVALID_POOL_ID \/ p = INVALID_POOL_ID
           THEN /\ sel_pool' = INVALID_POOL_ID
                /\ UNCHANGED <<pool_used, memVars>>
           ELSE /\ sel_pool' = p
                /\ IF pool_used[p] >= BlockCount \/ as.slot < 0
                   THEN UNCHANGED <<pool_used, memVars>>
                   ELSE /\ pool_used' = [pool_used EXCEPT ![p] = @ + 1]
                        /\ SetMem([as.mem EXCEPT
                                      !.entries[as.slot].block_index = pool_used[p],
                                      !.entries[as.slot].ref_count = 1,
                                      !.entries[as.slot].valid = TRUE])
    /\ UNCHANGED pool_registry
    /\ UNCHANGED <<block_data, queueVars, closed, mutex, prodVars, consVars,
                   closePc, histVars, poolUseVars, stepVars, createVars,
                   handleVars, auxVars>>

\* ------------------------------------------------------------------- create
\* PortQueue::create called by another process on the name of the queue,
\* while the producer that created it is alive and no call on the queue is
\* in flight: shared_memory_object::remove(name), then a fresh segment is
\* created and initialised, and create returns true.  The queue variables
\* are the segment found under the name.
Create ==
    /\ create_calls < MaxCreates
    /\ prodPc = "idle"
    /\ ~mutex
    /\ tail' = 0
    /\ consumer_count' = 0
    /\ closed' = FALSE
    /\ consumer_heads' = [c \in Consumers |-> 0]
    /\ consumer_active' = [c \in Consumers |-> FALSE]
    /\ mutex' = FALSE
    /\ ring' = [i \in 0 .. (Capacity - 1) |-> INVALID_BUFFER_ID]
    /\ create_calls' = create_calls + 1
    /\ create_result' = "true"
    /\ pushLog' = <<>>
    /\ pushPayload' = <<>>
    /\ popLog' = [c \in Consumers |-> <<>>]
    /\ regTail' = [c \in Consumers |-> 0]
    /\ UNCHANGED <<memVars, block_data, prodVars, consVars, closePc, selVars,
                   poolUseVars, stepVars, handleVars, auxVars>>

\* the consumer slots that are registered
ActiveConsumers == {c \in Consumers : consumer_active[c]}

\* ----------------------------------------------------------- specifications
\* the steps inside push / push_with_timeout
PushStep ==
    \/ PushCheckClosed
    \/ PushCheckFull
    \/ \E expired \in BOOLEAN : PushWake(expired)
    \/ PushTimeout

\* Spec: buffers flow from ShmManager::allocate through the ports
Next ==
    \/ Allocate
    \/ DropProducer
    \/ \E mode \in {"push", "timed"} : Write(mode)
    \/ PushStep
    \/ RegisterConsumer
    \/ \E c \in Consumers : UnregisterConsumer(c)
    \/ \E c \in Consumers : Read(c)
    \/ \E c \in Consumers : DropConsumer(c)

Spec == Init /\ [][Next]_vars

\* SpecQueue: the PortQueue operations called directly with bare ids, and a
\* thread that closes the queue
CloseStep == CloseStore \/ CloseNotify

NextQueue ==
    \/ \E mode \in {"push", "timed"} : RawPush(mode)
    \/ PushStep
    \/ RegisterConsumer
    \/ \E c \in Consumers : UnregisterConsumer(c)
    \/ \E c \in Consumers : Pop(c)
    \/ CloseStep

SpecQueue == Init /\ [][NextQueue]_vars

\* the scheduler runs a thread that can take a step: a push that is not
\* blocked goes on, a timed wait expires, close() runs to its end; consumers
\* are under no obligation to pop
LiveSpecQueue == SpecQueue /\ WF_vars(PushStep) /\ WF_vars(CloseStep)

\* SpecClose: the buffer flow of Spec together with a thread that closes the
\* queue
NextClose == Next \/ CloseStep

SpecClose == Init /\ [][NextClose]_vars

\* SpecCreate: the queue operations of SpecQueue, and further processes that
\* call create on the name of the live queue
NextCreate == NextQueue \/ Create

SpecCreate == Init /\ [][NextCreate]_vars

\* SpecPop: the producer allocates and pushes buffers, consumers register
\* and unregister, and pop is called with every consumer id
NextPop ==
    \/ Allocate
    \/ DropProducer
    \/ Write("push")
    \/ PushCheckClosed
    \/ PushCheckFull
    \/ RegisterConsumer
    \/ \E c \in Consumers : UnregisterConsumer(c)
    \/ \E c \in 0 .. MAX_CONSUMERS : PopCall(c)

SpecPop == Init /\ [][NextPop]_vars

\* SpecRegister: consumers register through direct calls, keeping the id
\* returned, and unregister, while ids are pushed and popped
NextRegister ==
    \/ RegisterCall
    \/ \E c \in Consumers : UnregisterConsumer(c)
    \/ RawPush("push")
    \/ PushCheckClosed
    \/ PushCheckFull
    \/ PushWake(FALSE)
    \/ \E c \in Consumers : Pop(c)

SpecRegister == Init /\ [][NextRegister]_vars

\* the scheduler runs a producer thread that can take a step inside push
PlainPushStep == PushCheckClosed \/ PushCheckFull \/ PushWake(FALSE)

LiveSpecRegister == SpecRegister /\ WF_vars(PlainPushStep)

\* SpecHandles: buffers are allocated from the allocator directly, handles
\* are constructed from ids, copied, moved, reset and dropped
NextHandles ==
    \/ RawAllocate
    \/ \E id \in BufferIds : RawRelease(id)
    \/ \E c \in Consumers : \E id \in BufferIds : Construct(c, id)
    \/ \E c, d \in Consumers : Clone(c, d)
    \/ \E c, d \in Consumers : CopyAssign(c, d)
    \/ \E c, d \in Consumers : MoveConstruct(c, d)
    \/ \E c, d \in Consumers : MoveAssign(c, d)
    \/ \E c \in Consumers : Reset(c)
    \/ \E c \in Consumers : DropConsumer(c)

SpecHandles == Init /\ [][NextHandles]_vars

\* SpecSteps: one process inside allocate and one giving references back
\* and inside deallocate, interleaved statement by statement
NextSteps ==
    \/ AllocBlock
    \/ AllocSlot
    \/ AllocInit
    \/ AllocPublish
    \/ \E id \in BufferIds : StepRemoveRef(id)
    \/ DeallocFind
    \/ DeallocInvalidate
    \/ DeallocFreeBlock
    \/ DeallocFreeSlot

SpecSteps == Init /\ [][NextSteps]_vars

\* SpecPool: processes call allocate_block and free_block in any sequence,
\* free_block with any index
NextPool ==
    \/ \E p \in Procs : PoolAllocate(p)
    \/ \E p \in Procs : \E b \in -1 .. BlockCount : PoolFree(p, b)

SpecPool == Init /\ [][NextPool]_vars

\* SpecPoolOwned: processes call allocate_block and give each block they got
\* back once
NextPoolOwned ==
    \/ \E p \in Procs : PoolAllocate(p)
    \/ \E p \in Procs : \E b \in Blocks : PoolFreeOwn(p, b)

SpecPoolOwned == Init /\ [][NextPoolOwned]_vars

\* SpecSelect: pools of several block sizes are registered and unregistered
\* in any order, and buffers of any size are requested
NextSelect ==
    \/ \E bs \in 1 .. MaxBlockSize : RegisterPool(bs)
    \/ \E p \in PoolIndices : UnregisterPool(p)
    \/ \E sz \in 1 .. MaxBlockSize + 1 : AllocateSize(sz)

SpecSelect == Init /\ [][NextSelect]_vars

\* SpecSolo: a producer that allocates, pushes and drops its buffers while no
\* consumer is registered, and a thread that closes the queue; consumers
\* register and leave only while the producer holds no buffer
SoloAllocate == ActiveConsumers = {} /\ Allocate

SoloRegister == prodHandle = EmptyHandle /\ RegisterConsumer

SoloUnregister(c) == prodHandle = EmptyHandle /\ UnregisterConsumer(c)

NextSolo ==
    \/ SoloAllocate
    \/ DropProducer
    \/ Write("push")
    \/ PushCheckClosed
    \/ PushCheckFull
    \/ SoloRegister
    \/ \E c \in Consumers : SoloUnregister(c)
    \/ CloseStep

SpecSolo == Init /\ [][NextSolo]_vars

\* ----------------------------------------------------------- queue properties
Count(seq, x) == Cardinality({k \in 1 .. Len(seq) : seq[k] = x})

\* C3: slowest-consumer backpressure.  In every state reached by
\* register_consumer, unregister_consumer, push, push_with_timeout and pop,
\* every active consumer c has 0 <= tail - heads[c] <= capacity.
C3_Backpressure ==
    \A c \in ActiveConsumers :
        /\ 0 <= tail - consumer_heads[c]
        /\ tail - consumer_heads[c] <= Capacity

\* a producer blocked on a full queue: some active consumer is a whole ring
\* behind
C3_Witness ==
    /\ prodPc = "waiting"
    /\ \E c \in ActiveConsumers : tail - consumer_heads[c] = Capacity

\* C4: broadcast delivery.  For a consumer that is still registered, every id
\* pushed since its registration has been returned to it by pop exactly once
\* when its head has passed the entry, and otherwise not yet and is still in
\* the ring for it (never lost, never returned twice).
C4_BroadcastDelivery ==
    \A c \in ActiveConsumers :
        \A i \in (regTail[c] + 1) .. Len(pushLog) :
            IF i <= consumer_heads[c]
            THEN Count(popLog[c], pushLog[i]) = 1
            ELSE /\ Count(popLog[c], pushLog[i]) = 0
                 /\ ring[(i - 1) % Capacity] = pushLog[i]

\* two consumers registered during the same push have both popped its id, a
\* third one has not yet
C4_Witness ==
    \E c, d, e \in ActiveConsumers :
        /\ c # d
        /\ Len(popLog[c]) >= 1 /\ Len(popLog[d]) >= 1
        /\ popLog[c][1] = popLog[d][1]
        /\ Len(popLog[c]) # Len(popLog[d])
        /\ consumer_heads[e] < tail

\* C5: per-consumer FIFO.  The ids a registered consumer has received from
\* pop are, in order, the ids pushed since its registration, whatever the
\* other consumers have done.
C5_PerConsumerFifo ==
    \A c \in ActiveConsumers :
        /\ Len(popLog[c]) = consumer_heads[c] - regTail[c]
        /\ \A k \in 1 .. Len(popLog[c]) :
               /\ regTail[c] + k <= Len(pushLog)
               /\ popLog[c][k] = pushLog[regTail[c] + k]

\* a consumer has popped two ids while another consumer is still behind on
\* both
C5_Witness ==
    \E c, d \in ActiveConsumers :
        /\ Len(popLog[c]) >= 2
        /\ regTail[d] <= regTail[c]
        /\ Len(popLog[d]) = 0

\* C6: late subscriber.  The step that registers consumer c leaves heads[c]
\* at the current tail and size(c) = 0, and no id a registered consumer has
\* popped was pushed before its registration.
C6_LateSubscriber ==
    [][/\ \A c \in Consumers :
            (~consumer_active[c] /\ consumer_active'[c]) =>
                /\ consumer_heads'[c] = tail
                /\ tail' = tail
                /\ size(c)' = 0
       /\ \A c \in Consumers :
            consumer_active'[c] =>
                \A k \in 1 .. Len(popLog'[c]) :
                    \A i \in 1 .. Len(pushLog') :
                        pushLog'[i] = popLog'[c][k] => i > regTail'[c]]_vars

\* a consumer registered after the first push has popped an id
C6_Witness ==
    \E c \in ActiveConsumers : regTail[c] >= 1 /\ Len(popLog[c]) >= 1

\* a push or push_with_timeout returns false in this step
FailedPushReturn ==
    /\ prodResult' = "false"
    /\ prodPc # "idle" \/ prodResult # "false"

\* C9: a push or push_with_timeout that fails (queue closed, or timed push
\* expired on a full queue) leaves tail, the ring, every consumer head and
\* every buffer's reference count as they were.
C9_FailedPushNoEffect ==
    [][FailedPushReturn =>
          UNCHANGED <<tail, ring, consumer_heads, entries>>]_vars

\* a timed push of a live buffer has expired on a full queue that is open
C9_Witness ==
    /\ prodResult = "false"
    /\ ~closed
    /\ is_full(tail, consumer_heads, consumer_active)
    /\ handle_valid(prodHandle)
    /\ get_ref_count(Mem, prodHandle.buffer_id) >= 1
    /\ \E c \in ActiveConsumers : consumer_heads[c] < tail

\* ---------------------------------------------------------- buffer properties
\* the number of handles that hold the id
Handles(id) ==
    (IF prodHandle.buffer_id = id THEN 1 ELSE 0)
    + Cardinality({c \in Consumers : consHandle[c].buffer_id = id})

\* the number of ring entries holding the id that an active consumer has not
\* read, summed over the active consumers
Unread(id) ==
    Cardinality({p \in ActiveConsumers \X (0 .. (tail - 1)) :
                    /\ consumer_heads[p[1]] <= p[2]
                    /\ ring[p[2] % Capacity] = id})

LiveSlots == {s \in Slots : entries[s].valid}

RECURSIVE RefSumUpTo(_, _)
RefSumUpTo(ents, n) ==
    IF n < 0 THEN 0
    ELSE (IF ents[n].valid THEN ents[n].ref_count ELSE 0) + RefSumUpTo(ents, n - 1)

\* the sum of the reference counts over the live buffers
RefSum == RefSumUpTo(entries, MAX_BUFFERS - 1)

\* C1: buffer release.  A buffer from ShmManager::allocate was pushed once
\* while every consumer slot was registered; once the producer has dropped
\* its handle and every one of those consumers has popped the id, built a
\* handle and dropped it, the buffer has no metadata slot any more (reference
\* count 0), and the pool's free_count and the table's allocated_count
\* account for the other live buffers only.
C1_BufferRelease ==
    \A i \in 1 .. Len(pushLog) :
        LET id == pushLog[i] IN
        (/\ prodPc = "idle"
         /\ prodHandle.buffer_id # id
         /\ \A c \in Consumers :
                /\ consumer_active[c]
                /\ regTail[c] < i
                /\ consumer_heads[c] >= i
                /\ consHandle[c].buffer_id # id)
        => /\ find_slot_by_id(entries, id) < 0
           /\ get_ref_count(Mem, id) = 0
           /\ pool_free_count = BlockCount - Cardinality(LiveSlots)
           /\ allocated_count = Cardinality(LiveSlots)

\* C2: reference-count conservation.  Whenever no push is in flight, the
\* reference count of every live buffer equals the number of handles holding
\* its id plus the number of its unread ring entries over the active
\* consumers.
C2_RefCountConservation ==
    prodPc = "idle" =>
        \A s \in LiveSlots :
            entries[s].ref_count =
                Handles(entries[s].buffer_id) + Unread(entries[s].buffer_id)

\* C7: unregister refunds.  The step in which unregister_consumer(c) takes an
\* active consumer out lowers the sum of the reference counts of the live
\* buffers by exactly tail - heads[c], and changes the count of no buffer
\* other than those of c's unread entries.
C7_UnregisterRefunds ==
    [][\A c \in Consumers :
          (consumer_active[c] /\ ~consumer_active'[c]) =>
              /\ RefSum' = RefSum - (tail - consumer_heads[c])
              /\ \A s \in Slots :
                     entries'[s].ref_count # entries[s].ref_count =>
                         \E i \in consumer_heads[c] .. (tail - 1) :
                             ring[i % Capacity] = entries[s].buffer_id]_vars

\* the position in pushLog of an id that was pushed, 0 when it was not
PushIndex(id) ==
    IF \E i \in 1 .. Len(pushLog) : pushLog[i] = id
    THEN CHOOSE i \in 1 .. Len(pushLog) : pushLog[i] = id
    ELSE 0

\* C8: no use-after-free through the queue.  The buffer of every ring entry
\* that an active consumer has not read is still allocated and still holds
\* the payload it held at the push, and every handle a consumer has built
\* from a popped id is valid and points at that payload.
C8_NoUseAfterFree ==
    /\ \A c \in ActiveConsumers :
           \A i \in (consumer_heads[c] + 1) .. Len(pushLog) :
               LET s == find_slot_by_id(entries, pushLog[i]) IN
               /\ s >= 0
               /\ block_data[entries[s].block_index] = pushPayload[i]
    /\ \A c \in Consumers :
           consHandle[c] # EmptyHandle =>
               /\ handle_valid(consHandle[c])
               /\ PushIndex(consHandle[c].buffer_id) > 0
               /\ block_data[consHandle[c].data_] =
                      pushPayload[PushIndex(consHandle[c].buffer_id)]

\* C10: close unwinds waiters.  Once close() has returned, a push that is
\* inside the queue (blocked on a full queue or about to block) returns.
C10_CloseUnwindsWaiters ==
    (closePc = "done" /\ prodPc # "idle") ~> (prodPc = "idle")

\* C11: push with zero active consumers.  On a queue without consumers the
\* push does not wait and succeeds, it changes no reference count, and the
\* step in which the producer then drops its handle of the pushed buffer
\* takes the buffer's reference count to 0 and gives its block back to the
\* pool.
C11_PushWithoutConsumers ==
    [][/\ (prodPc = "check" /\ prodPc' # "check" /\ ActiveConsumers = {}) =>
              /\ prodPc' = "idle"
              /\ prodResult' = "true"
              /\ entries' = entries
       /\ (/\ prodHandle # EmptyHandle
           /\ prodHandle' = EmptyHandle
           /\ PushIndex(prodHandle.buffer_id) > 0) =>
              /\ find_slot_by_id(entries', prodHandle.buffer_id) < 0
              /\ pool_free_count' = pool_free_count + 1]_vars

\* C12: producer ownership.  The queue's segment exists and the producer
\* that created it is alive, so every further call of create on the name
\* fails and leaves tail, the heads, the ring and the registered consumers as
\* they were.
C12_CreateOnLiveOwnerFails ==
    [][create_calls' # create_calls =>
          /\ create_result' = "false"
          /\ UNCHANGED <<tail, consumer_heads, ring, consumer_active,
                         consumer_count>>]_vars

\* C13: pool selection.  A block is only ever taken from an active pool
\* whose block_size is the minimum among the active pools with block_size >=
\* the requested size, whatever the order of registration; when no active
\* pool is large enough the request takes no block and no slot.
C13_SmallestFittingPool ==
    [][/\ \A p \in PoolIndices :
              pool_used'[p] > pool_used[p] =>
                  /\ p \in fitting_pools(pool_registry, req_size')
                  /\ \A q \in fitting_pools(pool_registry, req_size') :
                         pool_registry[p].block_size <= pool_registry[q].block_size
       /\ (req_size' # req_size /\ fitting_pools(pool_registry, req_size') = {}) =>
              UNCHANGED <<pool_used, memVars>>]_vars

\* the blocks met by following the free-list from block h, at most n of them
RECURSIVE FreeWalk(_, _, _)
FreeWalk(list, h, n) ==
    IF h < 0 \/ h >= BlockCount \/ n = 0 THEN <<>>
    ELSE <<h>> \o FreeWalk(list, list[h], n - 1)

FreeList == FreeWalk(pool_free_list, pool_free_head, BlockCount + 1)

\* C14: pool free-list invariant.  After any sequence of allocate_block and
\* free_block calls the list from free_head is acyclic (it ends within
\* block_count links and meets no block twice), its blocks are exactly the
\* blocks not currently allocated, and free_count is its length.
C14_PoolFreeList ==
    /\ Len(FreeList) <= BlockCount
    /\ \A i, j \in 1 .. Len(FreeList) : FreeList[i] = FreeList[j] => i = j
    /\ {FreeList[i] : i \in 1 .. Len(FreeList)} = Blocks \ AllHeld
    /\ pool_free_count = Len(FreeList)
    /\ pool_free_count <= BlockCount

\* C15: pool exhaustion.  A call of allocate_block that hands out a block
\* hands out one that no process holds, and it hands one out whenever some
\* block is free; it returns -1 only when every block is held, and then
\* free_head and free_count stay as they were; when every block that was
\* handed out has been given back once, free_count is block_count again.
C15_PoolExhaustion ==
    [][/\ (\E p \in Procs : held_blocks'[p] # held_blocks[p] /\ last_block' # <<>>) =>
              /\ last_block'[1] \in Blocks \ AllHeld
              /\ \E p \in Procs :
                     held_blocks' = [held_blocks EXCEPT ![p] = @ \cup {last_block'[1]}]
       /\ (last_block' # <<>> /\ held_blocks' = held_blocks /\ last_block' # last_block) =>
              /\ last_block' = <<-1>>
              /\ AllHeld = Blocks
              /\ UNCHANGED <<pool_free_head, pool_free_count>>
       /\ (AllHeld' = {}) => pool_free_count' = BlockCount]_vars

\* every block is held and a further allocate_block has returned -1
C15_Witness ==
    /\ AllHeld = Blocks
    /\ last_block = <<-1>>
    /\ pool_free_count = 0

\* C16: buffer-id uniqueness.  Every id that allocate_slot hands out is the
\* value of the id counter, which then moves past it, so the ids handed out
\* are strictly increasing and an id is not handed out again after its slot
\* was freed; every id in the table is below the counter; no two distinct
\* valid slots carry the same id.
C16_BufferIdUnique ==
    [][/\ next_buffer_id' >= next_buffer_id
       /\ \A s \in Slots :
              (entries'[s].buffer_id # entries[s].buffer_id
                  /\ entries'[s].buffer_id # INVALID_BUFFER_ID) =>
                  /\ entries'[s].buffer_id = next_buffer_id
                  /\ next_buffer_id' = next_buffer_id + 1
       /\ \A s \in Slots : entries'[s].buffer_id < next_buffer_id'
       /\ \A s, t \in Slots :
              (s # t /\ entries'[s].valid /\ entries'[t].valid) =>
                  entries'[s].buffer_id # entries'[t].buffer_id]_vars

\* two buffers are live, one of them in a slot that an earlier buffer had
C16_Witness ==
    /\ \A s \in Slots : entries[s].valid
    /\ next_buffer_id > MAX_BUFFERS + 1

\* C17: live-slot invariant.  In every reachable state a metadata slot with
\* valid = true has a buffer id other than 0, a reference count of at least
\* 1, and a block that is not on the pool free-list.
C17_LiveSlot ==
    \A s \in Slots :
        entries[s].valid =>
            /\ entries[s].buffer_id # INVALID_BUFFER_ID
            /\ entries[s].ref_count >= 1
            /\ \A i \in 1 .. Len(FreeList) : FreeList[i] # entries[s].block_index

\* C18: in no reachable state, the states between the statements of
\* allocate and deallocate included, has a metadata slot valid = false
\* together with a reference count above 0.
C18_InvalidSlotHasNoRefs ==
    \A s \in Slots : ~entries[s].valid => entries[s].ref_count = 0

\* the reference count of the id in a metadata table, 0 when no slot has it
RefCountIn(ents, id) == get_ref_count([entries |-> ents], id)

\* the handles other than d are as they were
OthersKept(d) == \A c \in Consumers \ {d} : consHandle'[c] = consHandle[c]

\* C19: handle ownership.  For every live buffer the reference count is the
\* number of handles that hold its id, plus one while the caller of allocate
\* still has the initial reference, and each such handle carries the data
\* pointer of the buffer.  Constructing a handle from a live id, or copying
\* one, raises the count by exactly 1; a move leaves the metadata as it was
\* and the source empty; dropping or resetting a handle lowers the count by
\* exactly 1.
C19_HandleOwnership ==
    [][/\ \A id \in BufferIds :
              find_slot_by_id(entries', id) >= 0 =>
                  /\ RefCountIn(entries', id)
                        = Handles(id)' + (IF id \in raw_owned' THEN 1 ELSE 0)
                  /\ \A c \in Consumers :
                         consHandle'[c].buffer_id = id =>
                             consHandle'[c].data_ = get_buffer_data([entries |-> entries'], id)
       /\ \A d \in Consumers :
              (/\ consHandle[d] = EmptyHandle
               /\ consHandle'[d] # EmptyHandle
               /\ OthersKept(d)
               /\ find_slot_by_id(entries, consHandle'[d].buffer_id) >= 0) =>
                  RefCountIn(entries', consHandle'[d].buffer_id)
                      = RefCountIn(entries, consHandle'[d].buffer_id) + 1
       /\ \A c, d \in Consumers :
              (/\ c # d
               /\ consHandle[c] # EmptyHandle
               /\ consHandle[d] = EmptyHandle
               /\ consHandle'[d] = consHandle[c]
               /\ consHandle'[c] = EmptyHandle) =>
                  UNCHANGED memVars
       /\ \A d \in Consumers :
              (/\ consHandle[d] # EmptyHandle
               /\ consHandle'[d] = EmptyHandle
               /\ OthersKept(d)
               /\ find_slot_by_id(entries, consHandle[d].buffer_id) >= 0) =>
                  RefCountIn(entries', consHandle[d].buffer_id)
                      = RefCountIn(entries, consHandle[d].buffer_id) - 1]_vars

\* a live buffer is held by two handles and by nothing else, with count 2
C19_Witness ==
    \E id \in BufferIds :
        /\ Handles(id) = 2
        /\ id \notin raw_owned
        /\ get_ref_count(Mem, id) = 2

\* the id was handed out at some time and no valid slot carries it now
Deallocated(id) == id < next_buffer_id /\ find_slot_by_id(entries, id) < 0

\* C20: stale ids are rejected.  Once a buffer has been deallocated no valid
\* slot carries its id again, whatever is allocated afterwards; add_ref,
\* remove_ref and get_buffer_data on the id and the construction of a handle
\* from it find nothing and leave the pool and the metadata table as they
\* are, and the handle constructed is not valid.
C20_StaleIdRejected ==
    [][\A id \in BufferIds :
           Deallocated(id) =>
               /\ find_slot_by_id(entries', id) < 0
               /\ add_ref(Mem, id) = Mem
               /\ remove_ref(Mem, id) = Mem
               /\ ~remove_ref_zero(Mem, id)
               /\ get_buffer_data(Mem, id) = NULL
               /\ BufferPtr_mem(Mem, id) = Mem
               /\ ~handle_valid(BufferPtr_handle(Mem, id))
               /\ \A c \in Consumers :
                      (/\ consHandle[c] = EmptyHandle
                       /\ consHandle'[c].buffer_id = id
                       /\ OthersKept(c)) =>
                          /\ UNCHANGED memVars
                          /\ ~handle_valid(consHandle'[c])]_vars

\* the slot of a deallocated buffer carries a newer buffer, and a handle has
\* been constructed from the deallocated id
C20_Witness ==
    \E id \in BufferIds :
        /\ Deallocated(id)
        /\ \A s \in Slots : entries[s].valid
        /\ \E c \in Consumers : consHandle[c].buffer_id = id

\* the metadata reference counts, slot by slot
RefCounts == [s \in Slots |-> entries[s].ref_count]

C22_PopCarriesUnit ==
    [][\A c \in Consumers :
           (/\ consumer_heads'[c] = consumer_heads[c] + 1
            /\ consHandle[c] = EmptyHandle
            /\ consHandle'[c] # EmptyHandle) =>
               get_ref_count([entries |-> entries'], consHandle'[c].buffer_id)
                   = get_ref_count(Mem, consHandle'[c].buffer_id)]_vars

\* C23: consumer slot limit and recycling.  A call of register_consumer
\* made while fewer than MAX_CONSUMERS consumers are active returns a slot
\* that was not active, and makes it active; a call made while MAX_CONSUMERS
\* are active returns INVALID_CONSUMER_ID and changes nothing of the queue.
\* So a call after an unregistration succeeds again.
C23_ConsumerSlots ==
    [][reg_result'.seq # reg_result.seq =>
          IF Cardinality(ActiveConsumers) < MAX_CONSUMERS
          THEN /\ reg_result'.id \in Consumers \ ActiveConsumers
               /\ consumer_active' = [consumer_active EXCEPT ![reg_result'.id] = TRUE]
          ELSE /\ reg_result'.id = INVALID_CONSUMER_ID
               /\ UNCHANGED <<queueVars, memVars>>]_vars

\* every slot is taken and the last call of register_consumer was refused
C23_Witness ==
    /\ reg_result.id = INVALID_CONSUMER_ID
    /\ reg_result.seq = 0
    /\ ActiveConsumers = Consumers

\* the queue is full for the producer
Full == is_full(tail, consumer_heads, consumer_active)

\* C24: a blocked push is always woken.  A push never stays in its wait once
\* the queue has stopped being full: the pop of the slowest consumer (of the
\* last of several tied ones) or the unregistration of a consumer notifies
\* it; a pop that leaves the queue full leaves the push waiting; and a push
\* that was notified with room in the queue completes with true.
C24_BlockedPushWoken ==
    /\ [](prodPc = "waiting" => Full)
    /\ [][(/\ prodPc = "waiting"
           /\ \E c \in Consumers : consumer_heads'[c] = consumer_heads[c] + 1
           /\ Full') => prodPc' = "waiting"]_vars
    /\ (prodPc = "woken" /\ ~Full) ~> (prodPc = "idle" /\ prodResult = "true")

\* the push was blocked by two tied consumers and has been notified, with
\* room in the queue
C24_Witness ==
    /\ prodPc = "woken"
    /\ ~Full
    /\ Cardinality(ActiveConsumers) >= 2
    /\ \A c \in ActiveConsumers : consumer_heads[c] > tail - Capacity

\* --------------------------------------------------------------- ShmManager
\* One ShmManager on the registry.  Its maps pools_, pool_name_to_id_ and
\* pool_id_to_name_ always hold the same pools, so pools_ stands for all three;
\* the name of a pool is its position in config_.pools, and the segment of a
\* pool is found by its name.
ConfigChoices == {<<2>>, <<1, 2>>, <<2, 1>>}

mgrFrame ==
    UNCHANGED <<block_data, queueVars, closed, mutex, prodVars, consVars, closePc,
                histVars, poolUseVars, stepVars, createVars, handleVars, popVars,
                regVars, relVars, lockVars, hbVars, tpVars, unregVars, procVars,
                pool_used>>

\* the state the manager's calls work on, as one value
Mgr == [reg |-> pool_registry, names |-> pool_shm_name, pools |-> pools_,
        used |-> seg_used, ok |-> TRUE]

SetMgr(st) ==
    /\ pool_registry' = st.reg
    /\ pool_shm_name' = st.names
    /\ pools_' = st.pools
    /\ seg_used' = st.used

\* ShmManager::add_pool for the pool named k: false if the manager has the
\* name; register_pool in the registry, false if no descriptor is left;
\* BufferPool::create removes the segment of the name and creates it anew,
\* all blocks free; then the maps get the pool
add_pool(st, k) ==
    IF \E p \in st.pools : st.names[p] = k THEN [st EXCEPT !.ok = FALSE]
    ELSE IF free_pool_slots(st.reg) = {} THEN [st EXCEPT !.ok = FALSE]
    ELSE LET id == CHOOSE i \in free_pool_slots(st.reg) :
                       \A j \in free_pool_slots(st.reg) : i <= j
         IN  [reg |-> register_pool(st.reg, config[k]),
              names |-> [st.names EXCEPT ![id] = k],
              pools |-> st.pools \cup {id},
              used |-> [st.used EXCEPT ![k] = 0],
              ok |-> TRUE]

\* the loop of ShmManager::initialize from the pool at position k on: it
\* stops at the first add_pool that fails
RECURSIVE add_pools(_, _)
add_pools(st, k) ==
    IF k > Len(config) THEN st
    ELSE LET st1 == add_pool(st, k)
         IN  IF st1.ok THEN add_pools(st1, k + 1) ELSE st1

\* ShmManager::ShmManager
ManagerConstruct(cfg) ==
    /\ config = <<>>
    /\ config' = cfg
    /\ UNCHANGED <<initialized_, pools_, mgr_result, pool_shm_name, seg_used,
                   removed_pools, pool_registry, req_size, sel_pool, memVars>>
    /\ mgrFrame

\* ShmManager::initialize on a manager that is not initialized.  When an
\* add_pool fails, the shutdown() it calls returns at once, initialized_ being
\* false, so the pools added before stay in the maps
Initialize ==
    /\ config # <<>>
    /\ ~initialized_
    /\ LET st == add_pools(Mgr, 1)
       IN  /\ SetMgr(st)
           /\ initialized_' = st.ok
           /\ mgr_result' = [op |-> "initialize", ok |-> st.ok,
                             seq |-> 1 - mgr_result.seq]
    /\ UNCHANGED <<config, removed_pools, req_size, sel_pool, memVars>>
    /\ mgrFrame

\* ShmManager::shutdown: the maps are cleared and the allocator is dropped;
\* the registry is not touched
Shutdown ==
    /\ initialized_
    /\ pools_' = {}
    /\ initialized_' = FALSE
    /\ mgr_result' = [op |-> "shutdown", ok |-> TRUE, seq |-> 1 - mgr_result.seq]
    /\ UNCHANGED <<config, pool_shm_name, seg_used, removed_pools, pool_registry,
                   req_size, sel_pool, memVars>>
    /\ mgrFrame

\* ShmManager::remove_pool(name) of a pool the manager has: the pool leaves
\* the three maps
RemovePool(k) ==
    /\ initialized_
    /\ \E p \in pools_ :
          /\ pool_shm_name[p] = k
          /\ pools_' = pools_ \ {p}
          /\ removed_pools' = removed_pools \cup {p}
    /\ mgr_result' = [op |-> "remove_pool", ok |-> TRUE, seq |-> 1 - mgr_result.seq]
    /\ UNCHANGED <<config, initialized_, pool_shm_name, seg_used, pool_registry,
                   req_size, sel_pool, memVars>>
    /\ mgrFrame

\* ShmManager::add_pool called by the client for a pool of the configuration
AddPool(k) ==
    /\ initialized_
    /\ k \in 1 .. Len(config)
    /\ LET st == add_pool(Mgr, k)
       IN  /\ SetMgr(st)
           /\ mgr_result' = [op |-> "add_pool", ok |-> st.ok,
                             seq |-> 1 - mgr_result.seq]
    /\ UNCHANGED <<config, initialized_, removed_pools, req_size, sel_pool, memVars>>
    /\ mgrFrame

\* ShmManager::select_pool_for_size: over pools_ in pool id order, the first
\* of the pools with the smallest sufficient block_size
manager_fitting(sz) == {p \in pools_ : pool_registry[p].block_size >= sz}

manager_select(sz) ==
    IF manager_fitting(sz) = {} THEN INVALID_POOL_ID
    ELSE CHOOSE i \in manager_fitting(sz) :
             \A j \in manager_fitting(sz) :
                 \/ pool_registry[i].block_size < pool_registry[j].block_size
                 \/ pool_registry[i].block_size = pool_registry[j].block_size /\ i <= j

\* the allocate of an initialized manager can give a buffer of this size: it
\* has a fitting pool, and the pool the allocator selects has a free block
\* and the table a free slot
CanAllocate(sz) ==
    /\ manager_select(sz) # INVALID_POOL_ID
    /\ seg_used[pool_shm_name[select_pool(pool_registry, sz)]] < BlockCount
    /\ allocate_slot(Mem).slot >= 0

\* ShmManager::allocate(size): the manager's selection decides whether the
\* call goes on; SharedBufferAllocator::allocate selects the pool over the
\* registry, opens the segment of the descriptor's shm_name, takes a block
\* and a slot and stores ref_count 1; the BufferPtr constructor adds 1
ManagerAllocate(sz) ==
    /\ initialized_
    /\ next_buffer_id <= MaxBufferId
    /\ req_size' = sz
    /\ LET p == select_pool(pool_registry, sz)
           as == allocate_slot(Mem)
       IN  IF CanAllocate(sz)
           THEN /\ sel_pool' = p
                /\ seg_used' = [seg_used EXCEPT ![pool_shm_name[p]] = @ + 1]
                /\ SetMem([as.mem EXCEPT
                              !.entries[as.slot].block_index = seg_used[pool_shm_name[p]],
                              !.entries[as.slot].ref_count = 2,
                              !.entries[as.slot].valid = TRUE])
                /\ mgr_result' = [op |-> "allocate", ok |-> TRUE,
                                  seq |-> 1 - mgr_result.seq]
           ELSE /\ sel_pool' = INVALID_POOL_ID
                /\ UNCHANGED <<seg_used, memVars>>
                /\ mgr_result' = [op |-> "allocate", ok |-> FALSE,
                                  seq |-> 1 - mgr_result.seq]
    /\ UNCHANGED <<config, initialized_, pools_, pool_shm_name, removed_pools,
                   pool_registry>>
    /\ mgrFrame

NextManager ==
    \/ \E cfg \in ConfigChoices : ManagerConstruct(cfg)
    \/ Initialize
    \/ Shutdown
    \/ \E k \in ConfigNames : RemovePool(k)
    \/ \E k \in ConfigNames : AddPool(k)
    \/ \E sz \in 1 .. MaxBlockSize : ManagerAllocate(sz)

SpecManager == Init /\ [][NextManager]_vars

\* C25: once remove_pool has been called for a pool, its registry descriptor
\* is inactive, and no allocate(size) that succeeds afterwards takes its
\* block from that pool
C25_RemovedPoolUnused ==
    /\ [](\A p \in removed_pools : ~pool_registry[p].active)
    /\ [][(mgr_result'.seq # mgr_result.seq /\ mgr_result'.op = "allocate"
           /\ mgr_result'.ok) => sel_pool' \notin removed_pools]_vars

\* the manager holds every pool of its configuration, one of them is large
\* enough for the size, no segment is used up and the table has a free slot
AllocatePossible(sz) ==
    /\ \A k \in 1 .. Len(config) : \E p \in pools_ : pool_shm_name[p] = k
    /\ \E k \in 1 .. Len(config) : config[k] >= sz
    /\ \A k \in ConfigNames : seg_used[k] < BlockCount
    /\ allocated_count < MAX_BUFFERS

\* C26: every initialize of a manager that is not initialized, the first one
\* and each one after a shutdown, returns true, and an allocate that follows
\* it, for a size one of the configured pools holds, returns a valid handle
\* as long as blocks and slots are left
C26_Reinitialize ==
    /\ [](mgr_result.op = "initialize" => mgr_result.ok)
    /\ [][(mgr_result'.seq # mgr_result.seq /\ mgr_result'.op = "allocate"
           /\ AllocatePossible(req_size')) => mgr_result'.ok]_vars

\* a push in the given mode writes its entry in this step
PushCommits(mode) ==
    /\ prodPc = "check"
    /\ prodMode = mode
    /\ tail' = tail + 1

\* C27: a push() that succeeds with K >= 1 active consumers, for a buffer the
\* producer holds through one handle, adds K - 1 to the reference count, and
\* the count right after the push is K
C27_PushRefBump ==
    [][(PushCommits("push") /\ prodHandle.buffer_id = prodArg
        /\ Cardinality(ActiveConsumers) >= 1)
       => LET K == Cardinality(ActiveConsumers)
          IN  /\ get_ref_count([entries |-> entries'], prodArg)
                   = get_ref_count(Mem, prodArg) + (K - 1)
              /\ get_ref_count([entries |-> entries'], prodArg) = K]_vars

\* C28: a push_with_timeout that succeeds changes tail, the ring and the
\* reference count as push() does in the same state, whatever the number of
\* active consumers
C28_TimedPushAsPush ==
    [][PushCommits("timed")
       => /\ tail' = tail + 1
          /\ ring' = [ring EXCEPT ![tail % Capacity] = prodArg]
          /\ get_ref_count([entries |-> entries'], prodArg)
               = get_ref_count(push_add_refs(Mem, prodArg, consumer_count), prodArg)]_vars

\* the slots met by following the free-slot list from slot h, at most n of
\* them
RECURSIVE SlotWalk(_, _, _)
SlotWalk(next, h, n) ==
    IF h < 0 \/ h >= MAX_BUFFERS \/ n = 0 THEN {}
    ELSE {h} \cup SlotWalk(next, next[h], n - 1)

FreeSlots == SlotWalk(next_free, free_head, MAX_BUFFERS)

\* the stage of the lifecycle slot s is in: a slot off the free-slot list
\* with count 0 and valid false is draining when deallocate has invalidated
\* it, and reserved otherwise
Stage(s) ==
    IF s \in FreeSlots THEN "free"
    ELSE IF entries[s].valid /\ entries[s].ref_count = 1 THEN "live"
    ELSE IF ~entries[s].valid /\ entries[s].ref_count = 0
         THEN IF deallocFrame.slot = s /\ deallocFrame.pc \in {"free_block", "free_slot"}
              THEN "draining" ELSE "reserved"
    ELSE "none"

LifecycleSteps ==
    {<<"free", "reserved">>, <<"reserved", "live">>, <<"live", "draining">>,
     <<"draining", "free">>}

\* C29: every metadata slot is free, reserved (count 0, valid false), live
\* (count 1, valid true) or draining (count 0, valid false), and moves from
\* one stage to the next in that order only; a slot is pushed on the
\* free-slot list only with valid false and count 0, and it becomes live only
\* from reserved, the stage allocate_slot leaves it in
C29_SlotLifecycle ==
    /\ [](\A s \in Slots : Stage(s) # "none")
    /\ [][\A s \in Slots : Stage(s)' # Stage(s) => <<Stage(s), Stage(s)'>> \in LifecycleSteps]_vars
    /\ [][\A s \in Slots : (s \notin FreeSlots /\ s \in FreeSlots')
                               => ~entries[s].valid /\ entries[s].ref_count = 0]_vars

\* the blocks on the pool free-list
FreeBlocks == {FreeList[i] : i \in 1 .. Len(FreeList)}

\* C30: the block of a slot that holds a buffer, or that deallocate is at
\* work on, is not on the pool free-list as long as the slot is off the
\* free-slot list: deallocate gives the slot back before the block
C30_SlotBeforeBlock ==
    \A s \in Slots :
        (s \notin FreeSlots /\ (entries[s].valid \/ deallocFrame.slot = s))
            => entries[s].block_index \notin FreeBlocks

\* ------------------------------------------- concurrent releases, stepwise
\* Each client c is a thread of its own.  A release is remove_ref, one
\* atomic fetch_sub, and then, when it reported zero, the statements of
\* deallocate one by one; constructions and copies are single fetch_adds.
relFrameOthers ==
    <<block_data, queueVars, closed, mutex, prodVars, closePc, histVars, selVars,
      poolUseVars, stepVars, createVars, popVars, regVars, mgrVars, lockVars,
      hbVars, tpVars, unregVars, procVars>>

Idle(c) == relFrame[c].pc = "idle"

\* BufferPtr h(id, allocator) by thread c
ThreadConstruct(c, id) == Idle(c) /\ Construct(c, id)

\* BufferPtr d(c) by thread d
ThreadClone(c, d) == Idle(d) /\ Clone(c, d)

\* release() of thread c's handle, up to the return of remove_ref
ThreadDrop(c) ==
    /\ Idle(c)
    /\ consHandle[c] # EmptyHandle
    /\ SetMem(remove_ref(Mem, consHandle[c].buffer_id))
    /\ relFrame' = [relFrame EXCEPT ![c] =
                       IF remove_ref_zero(Mem, consHandle[c].buffer_id)
                       THEN [IdleFrame EXCEPT !.pc = "find", !.id = consHandle[c].buffer_id]
                       ELSE IdleFrame]
    /\ consHandle' = [consHandle EXCEPT ![c] = EmptyHandle]
    /\ UNCHANGED <<raw_owned, free_calls, relFrameOthers>>

\* thread c gives the initial reference of id back: remove_ref, and
\* deallocate when it reported zero
ThreadRawRelease(c, id) ==
    /\ Idle(c)
    /\ id \in raw_owned
    /\ SetMem(remove_ref(Mem, id))
    /\ relFrame' = [relFrame EXCEPT ![c] =
                       IF remove_ref_zero(Mem, id)
                       THEN [IdleFrame EXCEPT !.pc = "find", !.id = id]
                       ELSE IdleFrame]
    /\ raw_owned' = raw_owned \ {id}
    /\ UNCHANGED <<consHandle, free_calls, relFrameOthers>>

\* deallocate, steps 1 and 2: find_slot_by_id, then the ref_count check
RelFind(c) ==
    /\ relFrame[c].pc = "find"
    /\ LET s == find_slot_by_id(entries, relFrame[c].id) IN
       relFrame' = [relFrame EXCEPT ![c] =
                       IF s < 0 \/ entries[s].ref_count > 0 THEN IdleFrame
                       ELSE [@ EXCEPT !.pc = "invalidate", !.slot = s]]
    /\ UNCHANGED <<memVars, consHandle, raw_owned, free_calls, relFrameOthers>>

\* deallocate, steps 3 and 4: meta.set_valid(false), read block_index
RelInvalidate(c) ==
    /\ relFrame[c].pc = "invalidate"
    /\ entries' = [entries EXCEPT ![relFrame[c].slot].valid = FALSE]
    /\ relFrame' = [relFrame EXCEPT ![c].pc = "free_block",
                                    ![c].block = entries[relFrame[c].slot].block_index]
    /\ UNCHANGED <<poolVars, free_head, next_free, allocated_count, next_buffer_id,
                   consHandle, raw_owned, free_calls, relFrameOthers>>

\* deallocate, step 5: free_block(block_index)
RelFreeBlock(c) ==
    /\ relFrame[c].pc = "free_block"
    /\ SetMem(free_block(Mem, relFrame[c].block))
    /\ relFrame' = [relFrame EXCEPT ![c].pc = "free_slot"]
    /\ free_calls' = [free_calls EXCEPT ![relFrame[c].id].block = @ + 1]
    /\ UNCHANGED <<consHandle, raw_owned, relFrameOthers>>

\* deallocate, step 6: free_slot(meta_slot)
RelFreeSlot(c) ==
    /\ relFrame[c].pc = "free_slot"
    /\ SetMem(free_slot(Mem, relFrame[c].slot))
    /\ relFrame' = [relFrame EXCEPT ![c] = IdleFrame]
    /\ free_calls' = [free_calls EXCEPT ![relFrame[c].id].slot = @ + 1]
    /\ UNCHANGED <<consHandle, raw_owned, relFrameOthers>>

\* the clients whose threads run
Releasers == {c \in Consumers : c < MaxReleasers}

NextRelease ==
    \/ RawAllocate
    \/ \E c \in Releasers : \E id \in BufferIds : ThreadConstruct(c, id)
    \/ \E c, d \in Releasers : ThreadClone(c, d)
    \/ \E c \in Releasers : ThreadDrop(c)
    \/ \E c \in Releasers : \E id \in BufferIds : ThreadRawRelease(c, id)
    \/ \E c \in Releasers : RelFind(c)
    \/ \E c \in Releasers : RelInvalidate(c)
    \/ \E c \in Releasers : RelFreeBlock(c)
    \/ \E c \in Releasers : RelFreeSlot(c)

SpecRelease == Init /\ [][NextRelease]_vars

\* C31: whatever the interleaving of constructions, copies and drops of the
\* handles of a buffer, its block is pushed on the pool free-list at most
\* once and its metadata slot is freed at most once
C31_SingleReleaser ==
    \A id \in BufferIds : free_calls[id].block <= 1 /\ free_calls[id].slot <= 1

\* ------------------------------------------------------------- the mutexes
\* The mutexes a core operation takes and gives back, in program order.  Each
\* scoped_lock is an acquire at its declaration and a release at the end of
\* its function; not_full.wait releases the queue mutex and takes it again.
\* add_ref and remove_ref take no mutex.
Acq(m) == <<"acquire", m>>
Rel(m) == <<"release", m>>

Operations ==
    {"allocate", "allocate_pool_empty", "allocate_table_full", "deallocate",
     "push", "push_blocked", "pop", "register_consumer", "unregister_consumer",
     "register_pool"}

\* a variant in which unregister_consumer deallocates the buffers whose
\* count it takes to zero, inside its critical section
LockScript_releasing(op) ==
    CASE op = "allocate" ->
           <<Acq("pool"), Rel("pool"), Acq("table"), Rel("table")>>
      [] op = "allocate_pool_empty" -> <<Acq("pool"), Rel("pool")>>
      [] op = "allocate_table_full" ->
           <<Acq("pool"), Rel("pool"), Acq("table"), Rel("table"),
             Acq("pool"), Rel("pool")>>
      [] op = "deallocate" ->
           <<Acq("pool"), Rel("pool"), Acq("table"), Rel("table")>>
      [] op = "push_blocked" ->
           <<Acq("queue"), Rel("queue"), Acq("queue"), Rel("queue")>>
      [] op = "unregister_consumer" ->
           <<Acq("queue"), Acq("pool"), Rel("pool"), Acq("table"), Rel("table"),
             Rel("queue")>>
      [] op \in {"push", "pop", "register_consumer"} ->
           <<Acq("queue"), Rel("queue")>>
      [] op = "register_pool" -> <<Acq("registry"), Rel("registry")>>
      [] OTHER -> <<>>

LockScript(op) ==
    CASE op = "allocate" ->
           <<Acq("pool"), Rel("pool"), Acq("table"), Rel("table")>>
      [] op = "allocate_pool_empty" -> <<Acq("pool"), Rel("pool")>>
      [] op = "allocate_table_full" ->
           <<Acq("pool"), Rel("pool"), Acq("table"), Rel("table"),
             Acq("pool"), Rel("pool")>>
      [] op = "deallocate" ->
           <<Acq("pool"), Rel("pool"), Acq("table"), Rel("table")>>
      [] op = "push_blocked" ->
           <<Acq("queue"), Rel("queue"), Acq("queue"), Rel("queue")>>
      [] op \in {"push", "pop", "register_consumer", "unregister_consumer"} ->
           <<Acq("queue"), Rel("queue")>>
      [] op = "register_pool" -> <<Acq("registry"), Rel("registry")>>
      [] OTHER -> <<>>

lockFrameOthers ==
    <<memVars, block_data, queueVars, closed, mutex, prodVars, consVars, closePc,
      histVars, selVars, poolUseVars, stepVars, createVars, handleVars, popVars,
      regVars, mgrVars, relVars, hbVars, tpVars, unregVars, procVars>>

\* the next lock event of thread t, <<>> when it is in no operation
NextEvent(t) ==
    LET f == lockFrame[t] IN
    IF f.pc <= Len(LockScript(f.op)) THEN LockScript(f.op)[f.pc] ELSE <<>>

\* the mutexes thread t holds
HeldBy(t) == {m \in Mutexes : lock_holder[m] = t}

\* thread t enters a core operation
LockBegin(t, op) ==
    /\ lockFrame[t].op = "none"
    /\ lockFrame' = [lockFrame EXCEPT ![t] = [op |-> op, pc |-> 1]]
    /\ UNCHANGED <<lock_holder, lockFrameOthers>>

\* thread t takes the mutex its operation asks for next; it waits while
\* the mutex is held
LockAcquire(t) ==
    /\ NextEvent(t) # <<>>
    /\ NextEvent(t)[1] = "acquire"
    /\ lock_holder[NextEvent(t)[2]] = 0
    /\ lock_holder' = [lock_holder EXCEPT ![NextEvent(t)[2]] = t]
    /\ lockFrame' = [lockFrame EXCEPT ![t].pc = @ + 1]
    /\ UNCHANGED lockFrameOthers

\* thread t gives a mutex back; after the last event the operation returns
LockRelease(t) ==
    /\ NextEvent(t) # <<>>
    /\ NextEvent(t)[1] = "release"
    /\ lock_holder' = [lock_holder EXCEPT ![NextEvent(t)[2]] = 0]
    /\ lockFrame' = [lockFrame EXCEPT ![t] =
                        IF lockFrame[t].pc = Len(LockScript(lockFrame[t].op))
                        THEN [op |-> "none", pc |-> 1]
                        ELSE [@ EXCEPT !.pc = @ + 1]]
    /\ UNCHANGED lockFrameOthers

NextLocks ==
    \/ \E t \in LockThreads : \E op \in Operations : LockBegin(t, op)
    \/ \E t \in LockThreads : LockAcquire(t)
    \/ \E t \in LockThreads : LockRelease(t)

SpecLocks == Init /\ [][NextLocks]_vars

\* the place of a mutex in the order registry, pool, metadata table, queue
Rank(m) ==
    CASE m = "registry" -> 1 [] m = "pool" -> 2 [] m = "table" -> 3 [] m = "queue" -> 4

\* a set of threads each of which waits for a mutex that one of them holds
Deadlocked(S) ==
    /\ S # {}
    /\ \A t \in S : /\ NextEvent(t) # <<>>
                    /\ NextEvent(t)[1] = "acquire"
                    /\ lock_holder[NextEvent(t)[2]] \in S

\* C32: a thread that takes a mutex holds none that comes later in the
\* order registry, pool, metadata table, queue (so never the queue mutex when
\* it takes the table mutex), every release is of a mutex the thread holds,
\* and no set of threads ever waits for each other's mutexes
C32_LockDiscipline ==
    /\ [][\A t \in LockThreads : \A m \in Mutexes :
             (lock_holder[m] # t /\ lock_holder'[m] = t)
                 => \A h \in HeldBy(t) : Rank(h) < Rank(m)]_vars
    /\ [](\A t \in LockThreads :
             (NextEvent(t) # <<>> /\ NextEvent(t)[1] = "release")
                 => lock_holder[NextEvent(t)[2]] = t)
    /\ [](\A S \in SUBSET LockThreads : ~Deadlocked(S))

\* three threads are inside their critical sections at once: a push holds
\* the queue mutex, an allocate the table mutex after it has given the pool
\* mutex back, and a deallocate the pool mutex
C32_Witness ==
    \E t, u, v \in LockThreads :
        /\ lockFrame[t].op = "push" /\ lock_holder["queue"] = t
        /\ lockFrame[u].op = "allocate" /\ lock_holder["table"] = u
        /\ lockFrame[v].op = "deallocate" /\ lock_holder["pool"] = v

\* C33: while a push is blocked on the full queue it does not hold the queue
\* mutex, so a pop by any consumer, a register_consumer and an
\* unregister_consumer can take the mutex and return
C33_PopNeverWaits ==
    prodPc = "waiting" =>
        /\ ~mutex
        /\ ENABLED RegisterCall
        /\ \A c \in Consumers : (ENABLED Pop(c)) /\ (ENABLED UnregisterConsumer(c))

\* a push is blocked on the full queue by one consumer while another has
\* read every entry
C33_Witness ==
    /\ prodPc = "waiting"
    /\ Full
    /\ \E c, d \in ActiveConsumers :
          consumer_heads[c] = tail /\ consumer_heads[d] = tail - Capacity

\* ------------------------------------------- direct use of the slot table
\* what the calls on the table leave alone
tableFrame ==
    <<poolVars, block_data, queueVars, closed, mutex, prodVars, consVars, closePc,
      histVars, extVars>>

\* allocate_slot() (under table_mutex)
TableAllocate ==
    /\ next_buffer_id <= MaxSlotIds
    /\ SetMem(allocate_slot(Mem).mem)
    /\ UNCHANGED <<block_data, queueVars, closed, mutex, prodVars, consVars,
                   closePc, histVars, extVars>>

\* free_slot(slot) (under table_mutex) with any index; the counter is kept
\* within the model's range
TableFree(s) ==
    /\ allocated_count <= MAX_BUFFERS
    /\ SetMem(free_slot(Mem, s))
    /\ UNCHANGED <<block_data, queueVars, closed, mutex, prodVars, consVars,
                   closePc, histVars, extVars>>

\* entries[slot].set_valid(true) by the owner of a slot it has allocated
TableSetValid(s) ==
    /\ s \notin FreeSlots
    /\ ~entries[s].valid
    /\ entries' = [entries EXCEPT ![s].valid = TRUE]
    /\ UNCHANGED <<free_head, next_free, allocated_count, next_buffer_id, tableFrame>>

NextTable ==
    \/ TableAllocate
    \/ \E s \in -1 .. MAX_BUFFERS : TableFree(s)
    \/ \E s \in Slots : TableSetValid(s)

SpecTable == Init /\ [][NextTable]_vars

\* the slots met by following the free-slot list from slot h, in order, at
\* most n of them
RECURSIVE SlotChain(_, _, _)
SlotChain(next, h, n) ==
    IF h < 0 \/ h >= MAX_BUFFERS \/ n = 0 THEN <<>>
    ELSE <<h>> \o SlotChain(next, next[h], n - 1)

FreeSlotList == SlotChain(next_free, free_head, MAX_BUFFERS + 1)

\* C34: after any sequence of allocate_slot and free_slot, allocated_count is
\* the number of slots off the free-slot list and makes MAX_BUFFERS with the
\* length of the list, the list is acyclic and holds no valid slot, and
\* allocate_slot returns -1 exactly when allocated_count = MAX_BUFFERS
C34_TableAccounting ==
    /\ allocated_count = Cardinality(Slots \ FreeSlots)
    /\ allocated_count + Len(FreeSlotList) = MAX_BUFFERS
    /\ Len(FreeSlotList) <= MAX_BUFFERS
    /\ \A i, j \in 1 .. Len(FreeSlotList) : FreeSlotList[i] = FreeSlotList[j] => i = j
    /\ \A s \in FreeSlots : ~entries[s].valid
    /\ (allocate_slot(Mem).slot < 0) <=> (allocated_count = MAX_BUFFERS)

\* ---------------------------------------------------------------- heartbeat
hbFrame ==
    <<memVars, block_data, queueVars, closed, mutex, prodVars, consVars, closePc,
      histVars, selVars, poolUseVars, stepVars, createVars, handleVars, popVars,
      regVars, mgrVars, relVars, lockVars, tpVars, unregVars, procVars>>

\* ProcessInfo::is_dead: an unsigned subtraction, then a strict comparison
is_dead(last, current_ns, timeout_ns) ==
    ((current_ns - last) % TimeModulus) > timeout_ns

\* the clock advances (an unsigned counter)
Tick ==
    /\ clock_ns' = (clock_ns + 1) % TimeModulus
    /\ UNCHANGED <<last_heartbeat_ns, dead_result, hbFrame>>

\* ProcessInfo::update_heartbeat
UpdateHeartbeat ==
    /\ last_heartbeat_ns' = clock_ns
    /\ UNCHANGED <<clock_ns, dead_result, hbFrame>>

\* is_dead(current_ns, timeout_ns) called with any pair of values
IsDead(current_ns, timeout_ns) ==
    /\ dead_result' = [now |-> current_ns, timeout |-> timeout_ns,
                       last |-> last_heartbeat_ns,
                       dead |-> is_dead(last_heartbeat_ns, current_ns, timeout_ns),
                       seq |-> 1 - dead_result.seq]
    /\ UNCHANGED <<last_heartbeat_ns, clock_ns, hbFrame>>

NextHeartbeat ==
    \/ Tick
    \/ UpdateHeartbeat
    \/ \E n, t \in Times : IsDead(n, t)

SpecHeartbeat == Init /\ [][NextHeartbeat]_vars

\* C35: is_dead(now, timeout) is the negation of now - last_heartbeat_ns <
\* timeout for every pair of values: dead at now - last_heartbeat_ns =
\* timeout, and, the difference being unsigned, for now < last_heartbeat_ns
C35_IsDeadNegatesLive ==
    [][dead_result'.seq # dead_result.seq
       => dead_result'.dead
            = ~(((dead_result'.now - dead_result'.last) % TimeModulus)
                   < dead_result'.timeout)]_vars

\* --------------------------------------------------------- pop_with_timeout
tpFrame ==
    <<selVars, poolUseVars, stepVars, createVars, handleVars, popVars, regVars,
      mgrVars, relVars, lockVars, hbVars, unregVars, procVars>>

\* a poll loop that never looks at the closed flag
timed_pop_closed_ignored(flag) == FALSE

\* header_->closed.load(acquire) in the poll loop
timed_pop_closed(flag) == flag

\* pop_with_timeout returns res
TimedPopReturn(res) ==
    /\ tpPc' = "idle"
    /\ tpResult' = res

\* entry of pop_with_timeout(c, timeout_ms): the range test, then the
\* deadline; with timeout_ms = 0 the deadline has passed at once
TimedPopBegin(c, timeout_ms) ==
    /\ tpPc = "idle"
    /\ tpConsumer' = c
    /\ tpExpired' = (timeout_ms = 0)
    /\ IF c \notin Consumers
       THEN TimedPopReturn("false")
       ELSE tpPc' = "pop" /\ tpResult' = "none"
    /\ UNCHANGED <<memVars, block_data, queueVars, closed, mutex, prodVars,
                   consVars, closePc, histVars, tpFrame>>

\* if (pop(consumer_id, buffer_id)) return true;
TimedPopTry ==
    /\ tpPc = "pop"
    /\ ~mutex
    /\ IF pop_ok(tpConsumer)
       THEN PopTake(tpConsumer) /\ TimedPopReturn("true")
       ELSE /\ tpPc' = "closed_test"
            /\ UNCHANGED <<consumer_heads, prodPc, popLog, tpResult>>
    /\ UNCHANGED <<memVars, block_data, tail, consumer_active, consumer_count, ring,
                   closed, mutex, prodHandle, prodMode, prodArg, prodResult,
                   consVars, closePc, pushLog, pushPayload, regTail, tpConsumer,
                   tpExpired, tpFrame>>

\* if (closed) return false;
TimedPopCheckClosed ==
    /\ tpPc = "closed_test"
    /\ IF timed_pop_closed(closed)
       THEN TimedPopReturn("false")
       ELSE tpPc' = "deadline_test" /\ UNCHANGED tpResult
    /\ UNCHANGED <<memVars, block_data, queueVars, closed, mutex, prodVars,
                   consVars, closePc, histVars, tpConsumer, tpExpired, tpFrame>>

\* if (now() >= deadline) return false;
TimedPopCheckDeadline ==
    /\ tpPc = "deadline_test"
    /\ IF tpExpired
       THEN TimedPopReturn("false")
       ELSE tpPc' = "sleep" /\ UNCHANGED tpResult
    /\ UNCHANGED <<memVars, block_data, queueVars, closed, mutex, prodVars,
                   consVars, closePc, histVars, tpConsumer, tpExpired, tpFrame>>

\* sleep_for(100us), then the next round of the loop
TimedPopSleep ==
    /\ tpPc = "sleep"
    /\ tpPc' = "pop"
    /\ UNCHANGED <<memVars, block_data, queueVars, closed, mutex, prodVars,
                   consVars, closePc, histVars, tpConsumer, tpExpired, tpResult,
                   tpFrame>>

\* steady_clock reaches the deadline of the call in progress
DeadlinePasses ==
    /\ tpPc # "idle"
    /\ ~tpExpired
    /\ tpExpired' = TRUE
    /\ UNCHANGED <<memVars, block_data, queueVars, closed, mutex, prodVars,
                   consVars, closePc, histVars, tpPc, tpConsumer, tpResult,
                   tpFrame>>

TimedPopStep ==
    TimedPopCheckClosed \/ TimedPopCheckDeadline \/ TimedPopSleep

NextTimedPop ==
    \/ RegisterCall
    \/ RawPush("push")
    \/ PushCheckClosed
    \/ PushCheckFull
    \/ PushWake(FALSE)
    \/ CloseStore
    \/ CloseNotify
    \/ \E c \in {0, MAX_CONSUMERS}, t \in 0 .. 1 : TimedPopBegin(c, t)
    \/ TimedPopTry
    \/ TimedPopCheckClosed
    \/ TimedPopCheckDeadline
    \/ TimedPopSleep
    \/ DeadlinePasses

SpecTimedPop == Init /\ [][NextTimedPop]_vars

\* the scheduler runs the producer and the polling thread, a thread that
\* asks for the queue mutex gets it once it is free often enough, and time
\* passes
LiveSpecTimedPop ==
    /\ SpecTimedPop
    /\ WF_vars(PlainPushStep)
    /\ WF_vars(TimedPopStep)
    /\ SF_vars(TimedPopTry)
    /\ WF_vars(DeadlinePasses)

\* C36: pop_with_timeout terminates: it returns success as soon as its pop
\* finds an entry, it returns failure only with the queue closed or the
\* deadline passed, a round that finds the queue empty and closed is the
\* last one, and every call returns
C36_TimedPopTerminates ==
    /\ [][tpPc = "pop" /\ tpPc' # "pop"
          => (pop_ok(tpConsumer) <=> (tpPc' = "idle" /\ tpResult' = "true"))]_vars
    /\ [][tpPc # "idle" /\ tpPc' = "idle" /\ tpResult' = "false"
          => (closed \/ tpExpired)]_vars
    /\ [][tpPc = "closed_test" /\ closed /\ tpPc' # tpPc
          => (tpPc' = "idle" /\ tpResult' = "false")]_vars
    /\ (tpPc # "idle") ~> (tpPc = "idle")
    /\ (closed /\ tpPc # "idle") ~> (tpPc = "idle")

\* a call on an empty queue has returned failure because of close, before
\* its deadline
C36_Witness ==
    /\ tpPc = "idle"
    /\ tpConsumer \in Consumers
    /\ tpResult = "false"
    /\ closed
    /\ ~tpExpired

unregister_applies_any_active(active, c) ==
    c \in Consumers /\ \E d \in Consumers : active[d]

\* an unregister_consumer without the test of the active flag
unregister_applies_unchecked(active, c) == c \in Consumers

\* the two early returns of unregister_consumer: the id is out of range, or
\* the consumer is not active
unregister_applies(active, c) == c \in Consumers /\ active[c]

\* unregister_consumer called with any consumer id, in range or not, active
\* or not
UnregisterCall(c) ==
    /\ ~mutex
    /\ unreg_call' = [consumer |-> c,
                      active |-> c \in Consumers /\ consumer_active[c],
                      second |-> /\ c \in Consumers
                                 /\ unreg_call.consumer = c
                                 /\ unreg_call.active
                                 /\ ~consumer_active[c],
                      seq |-> 1 - unreg_call.seq]
    /\ IF ~unregister_applies(consumer_active, c)
       THEN UNCHANGED <<memVars, consumer_active, consumer_count, prodPc, popLog,
                        regTail>>
       ELSE /\ SetMem(unregister_refund(Mem, ring, consumer_heads[c], tail))
            /\ consumer_active' = [consumer_active EXCEPT ![c] = FALSE]
            /\ consumer_count' = (consumer_count - 1) % UintModulus
            /\ prodPc' = notify_all(prodPc)
            /\ popLog' = [popLog EXCEPT ![c] = <<>>]
            /\ regTail' = [regTail EXCEPT ![c] = 0]
    /\ UNCHANGED <<block_data, tail, consumer_heads, ring, closed, mutex,
                   prodHandle, prodMode, prodArg, prodResult, consVars, closePc,
                   pushLog, pushPayload>>
    /\ UNCHANGED <<selVars, poolUseVars, stepVars, createVars, handleVars, popVars,
                   regVars, mgrVars, relVars, lockVars, hbVars, tpVars, procVars>>

NextUnregister ==
    \/ RegisterCall
    \/ \E c \in 0 .. MAX_CONSUMERS : UnregisterCall(c)
    \/ RawPush("push")
    \/ PushCheckClosed
    \/ PushCheckFull
    \/ PushWake(FALSE)
    \/ \E c \in Consumers : Pop(c)

SpecUnregister == Init /\ [][NextUnregister]_vars

\* C38: whenever the queue mutex is free, consumer_count is the number of
\* active consumer slots, after any interleaving of register_consumer and
\* unregister_consumer calls, those with an out-of-range or inactive id
\* included
C38_ConsumerCountExact ==
    ~mutex => consumer_count = Cardinality(ActiveConsumers)

\* two consumers are registered and the last unregister_consumer call named
\* a consumer that was not active
C38_Witness ==
    /\ ~mutex
    /\ unreg_call.seq = 1
    /\ ~unreg_call.active
    /\ consumer_count = 2

\* the producer allocates buffers and writes them to the queue while
\* consumers register and unregister_consumer is called with any id
NextUnregisterTwice ==
    \/ Allocate
    \/ DropProducer
    \/ Write("push")
    \/ PushCheckClosed
    \/ PushCheckFull
    \/ RegisterCall
    \/ \E c \in 0 .. MAX_CONSUMERS : UnregisterCall(c)

SpecUnregisterTwice == Init /\ [][NextUnregisterTwice]_vars

\* C39: unregister_consumer is idempotent: a call for the consumer id of the
\* call before it, which unregistered that consumer, with the consumer not
\* registered again since, changes nothing: no reference is given back a
\* second time, consumer_count is not decremented again, heads and active
\* flags stay, and no producer is notified
C39_UnregisterIdempotent ==
    [][unreg_call'.seq # unreg_call.seq /\ unreg_call'.second
       => UNCHANGED <<memVars, queueVars, prodVars>>]_vars

\* the second call has returned; at the first the consumer had an unread
\* entry, whose buffer still carries a reference
C39_Witness ==
    /\ unreg_call.second
    /\ consumer_heads[unreg_call.consumer] < tail
    /\ get_ref_count(Mem, ring[consumer_heads[unreg_call.consumer] % Capacity]) > 0
    /\ consumer_count > 0

\* ------------------------------------- one allocator object per process
procFrame ==
    <<block_data, queueVars, closed, mutex, prodVars, consVars, closePc, histVars,
      selVars, poolUseVars, stepVars, createVars, popVars, regVars, mgrVars,
      relVars, lockVars, hbVars, tpVars, unregVars>>

\* deallocate as run by a process: free_block is called only when the
\* process finds the pool in its pools_
deallocate_from(m, id, mapped) ==
    LET s == find_slot_by_id(m.entries, id) IN
    IF s < 0 THEN m
    ELSE IF m.entries[s].ref_count > 0 THEN m
    ELSE LET m1 == [m EXCEPT !.entries[s].valid = FALSE]
             m2 == IF mapped THEN free_block(m1, m.entries[s].block_index) ELSE m1
         IN  free_slot(m2, s)

\* allocator.register_pool(0, name)
ProcRegisterPool(p) ==
    /\ mapped_pools' = [mapped_pools EXCEPT ![p] = TRUE]
    /\ UNCHANGED <<memVars, raw_owned, procFrame>>

\* allocator.allocate(size) in process p: the pool is mapped first when it
\* is not in pools_ (auto_register_pool), then block, slot and metadata
ProcAllocate(p) ==
    /\ next_buffer_id <= MaxBufferId
    /\ mapped_pools' = [mapped_pools EXCEPT ![p] = TRUE]
    /\ LET r == allocator_allocate(Mem) IN
       /\ SetMem(r.mem)
       /\ raw_owned' = IF r.id # INVALID_BUFFER_ID THEN raw_owned \cup {r.id}
                       ELSE raw_owned
    /\ UNCHANGED procFrame

\* allocator.get_buffer_data(id) in process p maps the pool of a buffer found
ProcGetData(p, id) ==
    /\ find_slot_by_id(entries, id) >= 0
    /\ mapped_pools' = [mapped_pools EXCEPT ![p] = TRUE]
    /\ UNCHANGED <<memVars, raw_owned, procFrame>>

\* if (allocator.remove_ref(id)) allocator.deallocate(id) in process p, for
\* a buffer whose initial reference is still held
ProcRelease(p, id) ==
    /\ id \in raw_owned
    /\ SetMem(IF remove_ref_zero(Mem, id)
              THEN deallocate_from(remove_ref(Mem, id), id, mapped_pools[p])
              ELSE remove_ref(Mem, id))
    /\ raw_owned' = raw_owned \ {id}
    /\ UNCHANGED <<mapped_pools, procFrame>>

NextProcs ==
    \/ \E p \in AllocProcs : ProcRegisterPool(p)
    \/ \E p \in AllocProcs : ProcAllocate(p)
    \/ \E p \in AllocProcs, id \in BufferIds : ProcGetData(p, id)
    \/ \E p \in AllocProcs, id \in BufferIds : ProcRelease(p, id)

SpecProcs == Init /\ [][NextProcs]_vars

\* C40: deallocate releases slot and block together, in whichever process
\* runs it, one that has not mapped the pool included: a step that frees a
\* metadata slot raises free_count by one, and the blocks in use are as
\* many as the slots in use
C40_SlotAndBlockTogether ==
    /\ [][allocated_count' < allocated_count
          => pool_free_count' = pool_free_count + 1]_vars
    /\ [](BlockCount - pool_free_count = allocated_count)

====
